---------------------------- MODULE Spec2Model ----------------------------
(***************************************************************************)
(* Verification model of libpspproxy: the scratch space manager of         *)
(* psp-proxy.c, the PDU engine of psp-stub-pdu.c and the poll functions of *)
(* the providers.                                                          *)
(*                                                                         *)
(* The module holds several specifications over one set of variables, one  *)
(* per component; a component's specification leaves the variables of the  *)
(* other components at their initial values.                               *)
(*   SpecScratch : PSPProxyCtxScratchSpaceAlloc / PSPProxyCtxScratchSpaceFree *)
(*   SpecRecv    : pspStubPduCtxRecvId reading junk and PDUs off the wire  *)
(*   SpecPdu     : connect and memory reads against a stub                 *)
(*   SpecProv    : the poll functions of the three providers               *)
(*   SpecOps     : wait-for-interrupt, code module execution and failing   *)
(*                 requests on a connected context                         *)
(*   SpecXfer    : the transfer functions under small PDU sizes            *)
(***************************************************************************)
EXTENDS Integers, Sequences, FiniteSets, TLC

(***************************************************************************)
(* Scratch space manager (psp-proxy.c).                                    *)
(*                                                                         *)
(* The doubly linked free list hanging off pScratchFreeHead is modelled as *)
(* the sequence of its chunks in pNext order; every pointer update of the  *)
(* code keeps pPrev and pNext consistent, so the sequence carries the      *)
(* whole list.  malloc() is taken to succeed.  Addresses stay far below    *)
(* 2^32, so the 32 bit PSPADDR arithmetic never wraps.                     *)
(***************************************************************************)

\* The scratch region the stub reports (sev_user_data_query_info), and the
\* granularity and number of the requests the model issues.
ScratchStart == 131072
ScratchSize == 32768
AllocUnit == 4096
MaxAllocUnits == 3
MaxScratchOps == 6

VARIABLES
    fScratchSpaceMgrInit,   \* PSPPROXYCTXINT::fScratchSpaceMgrInit
    pScratchFreeHead,       \* the free list, head first
    scratchLive,            \* blocks handed out and not yet freed: [addr, cb]
    scratchRet,             \* outcome of the last scratch call
    cScratchOps,            \* number of scratch calls made so far
    pThis,                  \* PSPSTUBPDUCTXINT
    wire,                   \* bytes from the stub the provider can read
    hostOut,                \* requests written to the provider, not yet taken by the stub
    stub,                   \* the stub: its PDU and beacon counters
    op,                     \* the library call in progress and what it waits for
    opRet,                  \* outcome of the last finished library call
    ev,                     \* what the last step of the receive loop did
    prov                    \* a provider's poll: which provider, where it is, what it returned

scratchVars == <<fScratchSpaceMgrInit, pScratchFreeHead, scratchLive, scratchRet, cScratchOps>>

pduVars == <<pThis, wire, hostOut, stub, op, opRet, ev>>

provVars == <<prov>>

vars == <<fScratchSpaceMgrInit, pScratchFreeHead, scratchLive, scratchRet, cScratchOps,
          pThis, wire, hostOut, stub, op, opRet, ev, prov>>

AllocSizes == { k * AllocUnit : k \in 1..MaxAllocUnits }

ChunkEnd(c) == c.PspAddrStart + c.cbChunk

RemoveAt(s, i) == SubSeq(s, 1, i - 1) \o SubSeq(s, i + 1, Len(s))

InsertAfter(s, i, e) == SubSeq(s, 1, i) \o <<e>> \o SubSeq(s, i + 1, Len(s))

\* pspProxyCtxScratchSpaceMgrInit: one chunk covering the whole region.
ScratchSpaceMgrInitList == << [PspAddrStart |-> ScratchStart, cbChunk |-> ScratchSize] >>

\* The best-match walk of PSPProxyCtxScratchSpaceAlloc: index of pChunkBest
\* (0 for NULL) after walking the list from position i.
RECURSIVE BestFitWalk(_, _, _, _)
BestFitWalk(list, i, best, cbAlloc) ==
    IF i > Len(list) THEN best
    ELSE IF /\ list[i].cbChunk >= cbAlloc
            /\ (best = 0 \/ list[best].cbChunk > list[i].cbChunk)
         THEN IF list[i].cbChunk = cbAlloc
              THEN i
              ELSE BestFitWalk(list, i + 1, i, cbAlloc)
         ELSE BestFitWalk(list, i + 1, best, cbAlloc)

\* The list and the result of PSPProxyCtxScratchSpaceAlloc on an initialised manager.
ScratchAllocOn(list, cbAlloc) ==
    LET b == BestFitWalk(list, 1, 0, cbAlloc) IN
    IF b = 0
    THEN [list |-> list, rc |-> -1, addr |-> 0]
    ELSE IF list[b].cbChunk = cbAlloc
         THEN [list |-> RemoveAt(list, b), rc |-> 0, addr |-> list[b].PspAddrStart]
         ELSE LET cbLeft == list[b].cbChunk - cbAlloc IN
              [list |-> [list EXCEPT ![b].cbChunk = cbLeft],
               rc   |-> 0,
               addr |-> list[b].PspAddrStart + cbLeft]

\* The walk of PSPProxyCtxScratchSpaceFree over a non-empty list, from position i.
RECURSIVE ScratchFreeWalk(_, _, _, _)
ScratchFreeWalk(list, i, PspAddr, cb) ==
    IF i > Len(list) THEN list
    ELSE IF PspAddr + cb = list[i].PspAddrStart
    THEN \* prepend, then merge with the previous chunk when they touch
         LET cur == [PspAddrStart |-> PspAddr, cbChunk |-> list[i].cbChunk + cb]
             l1  == [list EXCEPT ![i] = cur]
         IN IF i > 1 /\ ChunkEnd(l1[i - 1]) = cur.PspAddrStart
            THEN RemoveAt([l1 EXCEPT ![i - 1].cbChunk = l1[i - 1].cbChunk + cur.cbChunk], i)
            ELSE l1
    ELSE IF ChunkEnd(list[i]) = PspAddr
    THEN \* append, then merge with the next chunk when they touch: the next
         \* chunk takes the size of both and keeps its own start address
         LET cur == [list[i] EXCEPT !.cbChunk = list[i].cbChunk + cb]
             l1  == [list EXCEPT ![i] = cur]
         IN IF i < Len(list) /\ ChunkEnd(cur) = l1[i + 1].PspAddrStart
            THEN RemoveAt([l1 EXCEPT ![i + 1].cbChunk = l1[i + 1].cbChunk + cur.cbChunk], i)
            ELSE l1
    ELSE IF \/ i = Len(list)
            \/ (ChunkEnd(list[i]) < PspAddr /\ list[i + 1].PspAddrStart > PspAddr)
    THEN InsertAfter(list, i, [PspAddrStart |-> PspAddr, cbChunk |-> cb])
    ELSE ScratchFreeWalk(list, i + 1, PspAddr, cb)

\* The list after PSPProxyCtxScratchSpaceFree(PspAddr, cb).
ScratchFreeOn(list, PspAddr, cb) ==
    IF list = << >>
    THEN << [PspAddrStart |-> PspAddr, cbChunk |-> cb] >>
    ELSE ScratchFreeWalk(list, 1, PspAddr, cb)

ScratchInit ==
    /\ fScratchSpaceMgrInit = FALSE
    /\ pScratchFreeHead = << >>
    /\ scratchLive = {}
    /\ scratchRet = [op |-> "none", rc |-> 0, addr |-> 0, cb |-> 0]
    /\ cScratchOps = 0

\* PSPProxyCtxScratchSpaceAlloc(hCtx, cbAlloc, &PspAddr); the first call
\* initialises the manager from the region the stub reports.
PSPProxyCtxScratchSpaceAlloc(cbAlloc) ==
    /\ cScratchOps < MaxScratchOps
    /\ LET list == IF fScratchSpaceMgrInit THEN pScratchFreeHead ELSE ScratchSpaceMgrInitList
           r    == ScratchAllocOn(list, cbAlloc)
       IN /\ fScratchSpaceMgrInit' = TRUE
          /\ pScratchFreeHead' = r.list
          /\ scratchRet' = [op |-> "alloc", rc |-> r.rc, addr |-> r.addr, cb |-> cbAlloc]
          /\ scratchLive' = IF r.rc = 0
                            THEN scratchLive \cup { [addr |-> r.addr, cb |-> cbAlloc] }
                            ELSE scratchLive
    /\ cScratchOps' = cScratchOps + 1
    /\ UNCHANGED <<pduVars, provVars>>

\* PSPProxyCtxScratchSpaceFree(hCtx, PspAddr, cb) of a block alloc returned, with its size.
PSPProxyCtxScratchSpaceFree(blk) ==
    /\ cScratchOps < MaxScratchOps
    /\ blk \in scratchLive
    /\ pScratchFreeHead' = ScratchFreeOn(pScratchFreeHead, blk.addr, blk.cb)
    /\ scratchRet' = [op |-> "free", rc |-> 0, addr |-> blk.addr, cb |-> blk.cb]
    /\ scratchLive' = scratchLive \ { blk }
    /\ cScratchOps' = cScratchOps + 1
    /\ UNCHANGED <<fScratchSpaceMgrInit, pduVars, provVars>>

ScratchNext ==
    \/ \E cbAlloc \in AllocSizes : PSPProxyCtxScratchSpaceAlloc(cbAlloc)
    \/ \E blk \in scratchLive : PSPProxyCtxScratchSpaceFree(blk)

(***************************************************************************)
(* PDU engine (psp-stub-pdu.c).                                            *)
(*                                                                         *)
(* The wire is a stream of bytes.  The layout of a PDU comes from          *)
(* psp-serial-stub.h, which the sources include but do not contain; it is  *)
(* taken from the specification: a 16 byte header (32 bit start magic, 32  *)
(* bit payload length, 32 bit PDU counter, RRN-ID, CCD index, status or    *)
(* timestamp), the payload padded with zeroes to a multiple of 8, and an 8 *)
(* byte footer (32 bit checksum, 32 bit end magic), all little endian.     *)
(*                                                                         *)
(* TLC's integers are 32 bit signed, so a 32 bit field read from the wire  *)
(* is kept as its two 16 bit halves [hi, lo].                              *)
(***************************************************************************)

\* sizeof(PSPSTUBPDUCTXINT::abPdu) and PSP_CCDS_MAX.
cbPduBuf == 4096
PSP_CCDS_MAX == 16

\* Wire format (specification sections 3 and 6).
cbPduHdr == 16
cbPduFooter == 8
cbBeaconNot == 4
\* sizeof(PSPSERIALIRQNOT): fIrqCur; sizeof(PSPSERIALEXECCMFINISHEDNOT): u32CmRet.
cbIrqNot == 4
cbExecNot == 4
\* sizeof(PSPSERIALEXECCODEMODREQ): four arguments; sizeof(PSPSERIALINBUFWRREQ):
\* idInBuf and u32Pad0.
cbExecCodeModReq == 16
\* sizeof(PSPSERIALPSPMEMXFERREQ) and sizeof(PSPSERIALSMNMEMXFERREQ): the
\* start address and cbXfer, 32 bit each; sizeof(PSPSERIALX86MEMXFERREQ):
\* PhysX86Start (64 bit), cbXfer, u32Pad0; sizeof(PSPSERIALDATAXFERREQ):
\* enmAddrSpace, the address union (64 bit address, fCaching), cbStride,
\* cbXfer, fFlags, padding.
cbMemXferReq == 8
cbX86MemXferReq == 16
cbDataXferReq == 32
\* PSPADDRSPACE_XXX and PSP_SERIAL_DATA_XFER_F_XXX.
PSPADDRSPACE_PSP_MEM == 1
PSPADDRSPACE_SMN == 3
PSPADDRSPACE_X86_MEM == 4
PSP_SERIAL_DATA_XFER_F_READ == 1
PSP_SERIAL_DATA_XFER_F_WRITE == 2
PSP_SERIAL_DATA_XFER_F_MEMSET == 4
PSP_SERIAL_DATA_XFER_F_INCR_ADDR == 8
cbInBufWrReq == 8
PSP_SERIAL_PSP_2_EXT_PDU_START_MAGIC == <<80, 83, 80, 62>>
PSP_SERIAL_PSP_2_EXT_PDU_END_MAGIC == <<60, 80, 83, 80>>
PSP_SERIAL_EXT_2_PSP_PDU_START_MAGIC == <<69, 88, 84, 62>>
PSP_SERIAL_EXT_2_PSP_PDU_END_MAGIC == <<60, 69, 88, 84>>

\* RRN-IDs: requests, responses and notifications live in separate ranges.
PSPSERIALPDURRNID_REQUEST_FIRST == 1
PSPSERIALPDURRNID_REQUEST_CONNECT == PSPSERIALPDURRNID_REQUEST_FIRST
PSPSERIALPDURRNID_REQUEST_PSP_MEM_READ == PSPSERIALPDURRNID_REQUEST_FIRST + 3
PSPSERIALPDURRNID_REQUEST_PSP_MEM_WRITE == PSPSERIALPDURRNID_REQUEST_FIRST + 4
PSPSERIALPDURRNID_REQUEST_PSP_SMN_READ == PSPSERIALPDURRNID_REQUEST_FIRST + 1
PSPSERIALPDURRNID_REQUEST_PSP_SMN_WRITE == PSPSERIALPDURRNID_REQUEST_FIRST + 2
PSPSERIALPDURRNID_REQUEST_PSP_X86_MEM_READ == PSPSERIALPDURRNID_REQUEST_FIRST + 7
PSPSERIALPDURRNID_REQUEST_PSP_X86_MEM_WRITE == PSPSERIALPDURRNID_REQUEST_FIRST + 8
PSPSERIALPDURRNID_REQUEST_PSP_DATA_XFER == PSPSERIALPDURRNID_REQUEST_FIRST + 11
PSPSERIALPDURRNID_REQUEST_EXEC_CODE_MOD == PSPSERIALPDURRNID_REQUEST_FIRST + 15
PSPSERIALPDURRNID_REQUEST_INPUT_BUF_WRITE == PSPSERIALPDURRNID_REQUEST_FIRST + 16
PSPSERIALPDURRNID_RESPONSE_FIRST == 257
PSPSERIALPDURRNID_RESPONSE_CONNECT == PSPSERIALPDURRNID_RESPONSE_FIRST
PSPSERIALPDURRNID_RESPONSE_PSP_MEM_READ == PSPSERIALPDURRNID_RESPONSE_FIRST + 3
PSPSERIALPDURRNID_RESPONSE_PSP_MEM_WRITE == PSPSERIALPDURRNID_RESPONSE_FIRST + 4
PSPSERIALPDURRNID_RESPONSE_PSP_SMN_READ == PSPSERIALPDURRNID_RESPONSE_FIRST + 1
PSPSERIALPDURRNID_RESPONSE_PSP_SMN_WRITE == PSPSERIALPDURRNID_RESPONSE_FIRST + 2
PSPSERIALPDURRNID_RESPONSE_PSP_X86_MEM_READ == PSPSERIALPDURRNID_RESPONSE_FIRST + 7
PSPSERIALPDURRNID_RESPONSE_PSP_X86_MEM_WRITE == PSPSERIALPDURRNID_RESPONSE_FIRST + 8
PSPSERIALPDURRNID_RESPONSE_PSP_DATA_XFER == PSPSERIALPDURRNID_RESPONSE_FIRST + 11
PSPSERIALPDURRNID_RESPONSE_EXEC_CODE_MOD == PSPSERIALPDURRNID_RESPONSE_FIRST + 15
PSPSERIALPDURRNID_RESPONSE_INPUT_BUF_WRITE == PSPSERIALPDURRNID_RESPONSE_FIRST + 16
PSPSERIALPDURRNID_RESPONSE_INVALID_FIRST == PSPSERIALPDURRNID_RESPONSE_FIRST + 18
PSPSERIALPDURRNID_NOTIFICATION_FIRST == 513
PSPSERIALPDURRNID_NOTIFICATION_BEACON == PSPSERIALPDURRNID_NOTIFICATION_FIRST
PSPSERIALPDURRNID_NOTIFICATION_LOG_MSG == PSPSERIALPDURRNID_NOTIFICATION_FIRST + 1
PSPSERIALPDURRNID_NOTIFICATION_OUT_BUF == PSPSERIALPDURRNID_NOTIFICATION_FIRST + 2
PSPSERIALPDURRNID_NOTIFICATION_IRQ == PSPSERIALPDURRNID_NOTIFICATION_FIRST + 3
PSPSERIALPDURRNID_NOTIFICATION_CODE_MOD_EXEC_FINISHED == PSPSERIALPDURRNID_NOTIFICATION_FIRST + 4
PSPSERIALPDURRNID_NOTIFICATION_INVALID_FIRST == PSPSERIALPDURRNID_NOTIFICATION_FIRST + 5

\* Status codes (common/status.h); -1 is the code's generic failure.
STS_INF_SUCCESS == "STS_INF_SUCCESS"
STS_ERR_GENERIC == "-1"
STS_ERR_PSP_PROXY_TIMEOUT == "STS_ERR_PSP_PROXY_TIMEOUT"
STS_ERR_PSP_PROXY_REQ_COMPLETED_WITH_ERROR == "STS_ERR_PSP_PROXY_REQ_COMPLETED_WITH_ERROR"
STS_ERR_PSP_PROXY_REQ_RESP_PAYLOAD_SZ_MISMATCH == "STS_ERR_PSP_PROXY_REQ_RESP_PAYLOAD_SZ_MISMATCH"
STS_ERR_PSP_PROXY_WFI_NO_CHANGE == "STS_ERR_PSP_PROXY_WFI_NO_CHANGE"
STS_ERR_INVALID_PARAMETER == "STS_ERR_INVALID_PARAMETER"

MIN(a, b) == IF a < b THEN a ELSE b

RECURSIVE SumRange(_, _, _)
\* The bytes ab[lo..hi] added up (by halves, the order does not matter).
SumRange(ab, lo, hi) ==
    IF lo > hi THEN 0
    ELSE IF lo = hi THEN ab[lo]
    ELSE SumRange(ab, lo, (lo + hi) \div 2) + SumRange(ab, (lo + hi) \div 2 + 1, hi)
SumBytes(ab) == SumRange(ab, 1, Len(ab))

Zeroes(n) == [i \in 1..n |-> 0]

\* A 32 bit value as its halves, from a number below 2^31 and from 4 bytes.
U32Of(n) == [hi |-> n \div 65536, lo |-> n % 65536]
U32FromBytes(ab) == [hi |-> ab[3] + 256 * ab[4], lo |-> ab[1] + 256 * ab[2]]
U32ToBytes(u) == <<u.lo % 256, u.lo \div 256, u.hi % 256, u.hi \div 256>>
U32Add(a, b) ==
    [hi |-> (a.hi + b.hi + ((a.lo + b.lo) \div 65536)) % 65536,
     lo |-> (a.lo + b.lo) % 65536]
\* (0xffffffff - u) + 1 in 32 bit arithmetic.
U32Neg(u) ==
    [hi |-> (65536 - u.hi - (IF u.lo = 0 THEN 0 ELSE 1)) % 65536,
     lo |-> (65536 - u.lo) % 65536]
U16ToBytes(n) == <<n % 256, n \div 256>>

\* ((cb + 7) & ~7) - cb
PadTo8(cb) == ((cb + 7) \div 8) * 8 - cb

\* The fields of the PSPSERIALPDUHDR at the start of the byte sequence ab.
PduHdrFields(ab) ==
    [u32Magic |-> SubSeq(ab, 1, 4),
     cbPdu    |-> U32FromBytes(SubSeq(ab, 5, 8)),
     cPdus    |-> U32FromBytes(SubSeq(ab, 9, 12)),
     enmRrnId |-> ab[13] + 256 * ab[14],
     idCcd    |-> ab[15],
     rcReq    |-> ab[16]]

\* The payload (without pad) of the complete PDU ab.
PduPayload(ab) == SubSeq(ab, cbPduHdr + 1, cbPduHdr + PduHdrFields(ab).cbPdu.lo)


\* pspStubPduCtxRecvReset.  The bytes left in abPdu are dead after a reset
\* (they are overwritten before they are read), so the model drops them:
\* abPdu holds the offPduRecv bytes received for the current PDU.
pspStubPduCtxRecvReset(p) ==
    [p EXCEPT !.enmPduRecvState = "MAGIC",
              !.cbPduRecvLeft   = 4,
              !.offPduRecv      = 0,
              !.abPdu           = << >>]

\* pspStubPduCtxCreate: the context after calloc() and the assignments.
\* achLogMsg holds the cchLogMsgAvail valid bytes of the log message buffer;
\* the bytes behind them are 0 at all times (calloc, and the memset after
\* every move), so the model does not keep them.
PduCtxCreated ==
    [pProxyIoIf         |-> FALSE,
     cPdusSent          |-> 0,
     cPduRecvNext       |-> 0,
     cBeaconsSeen       |-> 0,
     enmPduRecvState    |-> "MAGIC",
     cbPduRecvLeft      |-> 4,
     offPduRecv         |-> 0,
     abPdu              |-> << >>,
     fConnect           |-> FALSE,
     cbPduMax           |-> 0,
     rcReqLast          |-> 0,
     cbScratch          |-> 0,
     PspAddrScratch     |-> 0,
     cSysSockets        |-> 0,
     cCcdsPerSocket     |-> 0,
     cCcds              |-> 1,
     achLogMsg          |-> << >>,
     cchLogMsgAvail     |-> 0,
     cCcdsIrqChange     |-> 0,
     afPerCcdIrqNotRcvd |-> [i \in 0..(PSP_CCDS_MAX - 1) |-> FALSE],
     afPerCcdIrq        |-> [i \in 0..(PSP_CCDS_MAX - 1) |-> FALSE],
     afPerCcdFirq       |-> [i \in 0..(PSP_CCDS_MAX - 1) |-> FALSE]]

C40_Mutant_cbPduRecvMax == cbPduBuf
\* The payload length above which pspStubPduCtxHdrValidate rejects a
\* header: sizeof(abPdu) - sizeof(PSPSERIALPDUHDR) - sizeof(PSPSERIALPDUFOOTER).
cbPduRecvMax == cbPduBuf - cbPduHdr - cbPduFooter

C4_Mutant_HdrValidateWhy(p, hdr) ==
    IF hdr.u32Magic # PSP_SERIAL_PSP_2_EXT_PDU_START_MAGIC THEN "magic"
    ELSE IF hdr.cbPdu.hi > 0 \/ hdr.cbPdu.lo > cbPduRecvMax THEN "cbPdu"
    ELSE IF ~ (\/ /\ hdr.enmRrnId >= PSPSERIALPDURRNID_NOTIFICATION_FIRST
                  /\ hdr.enmRrnId < PSPSERIALPDURRNID_NOTIFICATION_INVALID_FIRST
               \/ /\ hdr.enmRrnId >= PSPSERIALPDURRNID_RESPONSE_FIRST
                  /\ hdr.enmRrnId < PSPSERIALPDURRNID_RESPONSE_INVALID_FIRST) THEN "enmRrnId"
    ELSE IF hdr.idCcd >= p.cCcds THEN "idCcd"
    ELSE "ok"
\* The first check of pspStubPduCtxHdrValidate that fails on the header, or
\* "ok": start magic, payload length, RRN-ID range, PDU counter (only when
\* connected), CCD index.
HdrValidateWhy(p, hdr) ==
    IF hdr.u32Magic # PSP_SERIAL_PSP_2_EXT_PDU_START_MAGIC THEN "magic"
    ELSE IF hdr.cbPdu.hi > 0 \/ hdr.cbPdu.lo > cbPduRecvMax THEN "cbPdu"
    ELSE IF ~ (\/ /\ hdr.enmRrnId >= PSPSERIALPDURRNID_NOTIFICATION_FIRST
                  /\ hdr.enmRrnId < PSPSERIALPDURRNID_NOTIFICATION_INVALID_FIRST
               \/ /\ hdr.enmRrnId >= PSPSERIALPDURRNID_RESPONSE_FIRST
                  /\ hdr.enmRrnId < PSPSERIALPDURRNID_RESPONSE_INVALID_FIRST) THEN "enmRrnId"
    ELSE IF hdr.cPdus # U32Of(p.cPduRecvNext + 1) /\ p.fConnect THEN "cPdus"
    ELSE IF hdr.idCcd >= p.cCcds THEN "idCcd"
    ELSE "ok"

C28_Mutant_HdrValidate(p, hdr) == HdrValidateWhy(p, hdr) \in {"ok", "idCcd"}
\* pspStubPduCtxHdrValidate: TRUE for return code 0.
pspStubPduCtxHdrValidate(p, hdr) == HdrValidateWhy(p, hdr) = "ok"

C8_Mutant_Validate(ab) ==
    LET cbPdu   == PduHdrFields(ab).cbPdu.lo
        cbPad   == PadTo8(cbPdu)
        uChkSum == SumBytes(SubSeq(ab, 1, cbPduHdr + cbPdu + cbPad))
        off     == cbPduHdr + cbPdu + cbPad
        u32ChkSum == U32FromBytes(SubSeq(ab, off + 1, off + 4))
        u32Magic  == SubSeq(ab, off + 5, off + 8)
    IN /\ U32Add(U32Of(uChkSum), u32ChkSum) = U32Of(0)
       /\ u32Magic = PSP_SERIAL_PSP_2_EXT_PDU_END_MAGIC
\* pspStubPduCtxValidate on the complete PDU in ab: TRUE for return code 0.
\* The checksum runs over u.ab (the header behind the magic), the payload and the pad.
pspStubPduCtxValidate(ab) ==
    LET cbPdu   == PduHdrFields(ab).cbPdu.lo
        cbPad   == PadTo8(cbPdu)
        uChkSum == SumBytes(SubSeq(ab, 5, cbPduHdr + cbPdu + cbPad))
        off     == cbPduHdr + cbPdu + cbPad
        u32ChkSum == U32FromBytes(SubSeq(ab, off + 1, off + 4))
        u32Magic  == SubSeq(ab, off + 5, off + 8)
    IN /\ U32Add(U32Of(uChkSum), u32ChkSum) = U32Of(0)
       /\ u32Magic = PSP_SERIAL_PSP_2_EXT_PDU_END_MAGIC

\* The MAGIC state on a mismatch: the first byte is removed, the last three
\* stay as the possible start of the magic.
C6_Mutant_MagicShift(ab) == <<ab[1], ab[2], ab[3]>>
MagicShift(ab) == <<ab[2], ab[3], ab[4]>>

\* pspStubPduCtxRecvAdvance: the context afterwards, the return code, the
\* complete PDU handed out (<< >> for NULL) and what happened.
pspStubPduCtxRecvAdvance(p) ==
    CASE p.enmPduRecvState = "MAGIC" ->
            IF SubSeq(p.abPdu, 1, 4) = PSP_SERIAL_PSP_2_EXT_PDU_START_MAGIC
            THEN [p   |-> [p EXCEPT !.enmPduRecvState = "HDR",
                                    !.cbPduRecvLeft = cbPduHdr - 4],
                  rc  |-> STS_INF_SUCCESS, pdu |-> << >>, what |-> "magic"]
            ELSE [p   |-> [p EXCEPT !.abPdu = MagicShift(p.abPdu),
                                    !.cbPduRecvLeft = 1,
                                    !.offPduRecv = 3],
                  rc  |-> STS_INF_SUCCESS, pdu |-> << >>, what |-> "shift"]
      [] p.enmPduRecvState = "HDR" ->
            LET hdr == PduHdrFields(p.abPdu) IN
            IF pspStubPduCtxHdrValidate(p, hdr)
            THEN IF hdr.cbPdu.lo # 0
                 THEN [p   |-> [p EXCEPT !.enmPduRecvState = "PAYLOAD",
                                         !.cbPduRecvLeft = hdr.cbPdu.lo + PadTo8(hdr.cbPdu.lo)],
                       rc  |-> STS_INF_SUCCESS, pdu |-> << >>, what |-> "hdr"]
                 ELSE [p   |-> [p EXCEPT !.enmPduRecvState = "FOOTER",
                                         !.cbPduRecvLeft = cbPduFooter],
                       rc  |-> STS_INF_SUCCESS, pdu |-> << >>, what |-> "hdr"]
            ELSE [p   |-> pspStubPduCtxRecvReset(p),
                  rc  |-> STS_INF_SUCCESS, pdu |-> << >>,
                  what |-> IF HdrValidateWhy(p, hdr) = "cPdus" THEN "hdr_bad_cPdus" ELSE "hdr_bad"]
      [] p.enmPduRecvState = "PAYLOAD" ->
            [p   |-> [p EXCEPT !.enmPduRecvState = "FOOTER",
                               !.cbPduRecvLeft = cbPduFooter],
             rc  |-> STS_INF_SUCCESS, pdu |-> << >>, what |-> "payload"]
      [] p.enmPduRecvState = "FOOTER" ->
            IF pspStubPduCtxValidate(p.abPdu)
            THEN [p   |-> pspStubPduCtxRecvReset([p EXCEPT !.cPduRecvNext = p.cPduRecvNext + 1]),
                  rc  |-> STS_INF_SUCCESS, pdu |-> p.abPdu, what |-> "pdu"]
            ELSE [p   |-> pspStubPduCtxRecvReset(p),
                  rc  |-> STS_ERR_GENERIC, pdu |-> << >>, what |-> "footer_bad"]
      [] OTHER ->
            [p |-> p, rc |-> STS_ERR_GENERIC, pdu |-> << >>, what |-> "invalid"]

\* One pass of the loop of pspStubPduCtxRecv with data available: the
\* provider hands over the next cbThisRecv = MIN(cbAvail, cbPduRecvLeft)
\* bytes and the state machine advances when the state is complete.
\* done says whether pspStubPduCtxRecv returns.
RecvPass(p, ab) ==
    LET cbThisRecv == Len(ab)
        p1 == [p EXCEPT !.abPdu = SubSeq(p.abPdu, 1, p.offPduRecv) \o ab,
                        !.offPduRecv = p.offPduRecv + cbThisRecv,
                        !.cbPduRecvLeft = p.cbPduRecvLeft - cbThisRecv]
    IN IF p1.cbPduRecvLeft # 0
       THEN [p |-> p1, rc |-> STS_INF_SUCCESS, pdu |-> << >>, what |-> "read", done |-> FALSE]
       ELSE LET adv == pspStubPduCtxRecvAdvance(p1) IN
            [p |-> adv.p, rc |-> adv.rc, pdu |-> adv.pdu, what |-> adv.what,
             done |-> (adv.rc # STS_INF_SUCCESS \/ adv.pdu # << >>)]


\* A 32 bit field as a number (all values the model puts into these stay below 2^31).
U32Num(u) == u.hi * 65536 + u.lo

\* sizeof(achLogMsg)
cbLogMsgBuf == 1024

\* strchr(&achLogMsg[0], '\n') on the buffer whose valid bytes are ab: the
\* position of the first newline (10), or 0 for NULL.  The search ends at
\* the first 0 byte.  With all of the buffer valid and neither a newline
\* nor a 0 in it the search runs into the bytes that follow the array in the
\* structure, padding or cchLogMsgAvail with the value 1024, whose first
\* byte is 0 in either byte order: NULL.
C23_Mutant_LogMsgNewLine(ab) ==
    LET S == { i \in 1..Len(ab) : ab[i] = 10 } IN
    IF S = {} THEN 0 ELSE CHOOSE i \in S : \A j \in S : i >= j
LogMsgNewLine(ab) ==
    LET S == { i \in 1..Len(ab) : ab[i] \in {0, 10} } IN
    IF S = {} THEN 0
    ELSE LET i == CHOOSE k \in S : \A j \in S : k <= j
         IN IF ab[i] = 10 THEN i ELSE 0

\* The loop of pspStubPduCtxLogMsgHandle over the valid bytes ab: while a
\* newline is found the text up to and including it is passed to pfnLogMsg
\* (terminated behind the newline) and the rest is moved to the front.
\* aMsgs are the texts passed, ab is what stays in the buffer.
RECURSIVE LogMsgLines(_)
LogMsgLines(ab) ==
    LET n == LogMsgNewLine(ab) IN
    IF n = 0
    THEN [ab |-> ab, aMsgs |-> << >>]
    ELSE LET r == LogMsgLines(SubSeq(ab, n + 1, Len(ab)))
         IN [ab |-> r.ab, aMsgs |-> <<SubSeq(ab, 1, n)>> \o r.aMsgs]

\* pspStubPduCtxLogMsgHandle: a payload that does not fit behind the valid
\* bytes is dropped, else it is appended and the lines are handed over.
pspStubPduCtxLogMsgHandle(p, pdu) ==
    LET cchMsg == PduHdrFields(pdu).cbPdu.lo
        pbMsg  == SubSeq(pdu, cbPduHdr + 1, cbPduHdr + cchMsg)
    IN IF cbLogMsgBuf - p.cchLogMsgAvail >= cchMsg
       THEN LET r == LogMsgLines(SubSeq(p.achLogMsg, 1, p.cchLogMsgAvail) \o pbMsg)
            IN [p        |-> [p EXCEPT !.achLogMsg = r.ab, !.cchLogMsgAvail = Len(r.ab)],
                aMsgs    |-> r.aMsgs,
                fDropped |-> FALSE]
       ELSE [p |-> p, aMsgs |-> << >>, fDropped |-> TRUE]

\* The condition under which pspStubPduCtxRecvId ignores the beacon pdu:
\* not in connected mode, or the counter is the one seen so far plus one.
C10_Mutant_BeaconIgnored(p, pdu) == TRUE
BeaconIgnored(p, pdu) ==
    IF p.fConnect
    THEN U32FromBytes(SubSeq(pdu, cbPduHdr + 1, cbPduHdr + 4)) = U32Of(p.cBeaconsSeen + 1)
    ELSE TRUE

C39_Mutant_IrqNotStore(p, idCcd, fIrqCur) ==
    IF ~ p.afPerCcdIrqNotRcvd[idCcd]
    THEN [p EXCEPT !.afPerCcdIrqNotRcvd[idCcd] = TRUE,
                   !.afPerCcdIrq[idCcd]  = (fIrqCur % 2 = 1),
                   !.afPerCcdFirq[idCcd] = ((fIrqCur \div 2) % 2 = 1),
                   !.cCcdsIrqChange = p.cCcdsIrqChange + 1]
    ELSE [p EXCEPT !.cCcdsIrqChange = p.cCcdsIrqChange + 1]
\* What pspStubPduCtxRecvId stores for the interrupt notification of the
\* CCD idCcd (below PSP_CCDS_MAX) with the payload byte fIrqCur: marker,
\* flags and counter, unless the marker of the CCD is still set.
IrqNotStore(p, idCcd, fIrqCur) ==
    IF ~ p.afPerCcdIrqNotRcvd[idCcd]
    THEN [p EXCEPT !.afPerCcdIrqNotRcvd[idCcd] = TRUE,
                   !.afPerCcdIrq[idCcd]  = (fIrqCur % 2 = 1),
                   !.afPerCcdFirq[idCcd] = ((fIrqCur \div 2) % 2 = 1),
                   !.cCcdsIrqChange = p.cCcdsIrqChange + 1]
    ELSE p

\* What pspStubPduCtxRecvId does with a complete PDU that pspStubPduCtxRecv
\* returned while it waits for enmRrnId: "return" it, "continue" waiting
\* (a notification was handled) or "fail" with -1.  The log message and
\* output buffer handlers run only with an I/O interface registered (with
\* all of its callbacks); the output buffer handler leaves the fields of
\* this model alone.
pspStubPduCtxRecvIdDispatch(p, pdu, enmRrnId) ==
    LET hdr == PduHdrFields(pdu) IN
    IF hdr.enmRrnId = enmRrnId
    THEN [p |-> p, res |-> "return"]
    ELSE IF hdr.enmRrnId = PSPSERIALPDURRNID_NOTIFICATION_LOG_MSG
    THEN [p   |-> IF p.pProxyIoIf THEN pspStubPduCtxLogMsgHandle(p, pdu).p ELSE p,
          res |-> "continue"]
    ELSE IF hdr.enmRrnId = PSPSERIALPDURRNID_NOTIFICATION_OUT_BUF
    THEN [p |-> p, res |-> "continue"]
    ELSE IF hdr.enmRrnId = PSPSERIALPDURRNID_NOTIFICATION_IRQ
    THEN LET idCcd   == hdr.idCcd
             fIrqCur == pdu[cbPduHdr + 1]
         IN IF idCcd < PSP_CCDS_MAX
            THEN [p |-> IrqNotStore(p, idCcd, fIrqCur), res |-> "continue"]
            ELSE [p |-> p, res |-> "fail"]
    ELSE IF /\ hdr.enmRrnId = PSPSERIALPDURRNID_NOTIFICATION_BEACON
            /\ BeaconIgnored(p, pdu)
    THEN [p |-> [p EXCEPT !.cBeaconsSeen = p.cBeaconsSeen + 1], res |-> "continue"]
    ELSE [p |-> p, res |-> "fail"]

C26_Mutant_Send(p, idCcd, enmPduRrnId, abPayload) ==
    [p   |-> [p EXCEPT !.cPdusSent = p.cPdusSent + 1],
     pdu |-> [cbPdu |-> Len(abPayload), cPdus |-> p.cPdusSent,
              enmRrnId |-> enmPduRrnId, idCcd |-> idCcd, abPayload |-> abPayload]]
\* pspStubPduCtxSend: the header fields and the payload of the PDU written
\* to the provider; the counter is incremented before it is stamped.
pspStubPduCtxSend(p, idCcd, enmPduRrnId, abPayload) ==
    [p   |-> [p EXCEPT !.cPdusSent = p.cPdusSent + 1],
     pdu |-> [cbPdu |-> Len(abPayload), cPdus |-> p.cPdusSent + 1,
              enmRrnId |-> enmPduRrnId, idCcd |-> idCcd, abPayload |-> abPayload]]

\* pspStubPduCtxSend, the bytes it hands to pfnCtxWrite for the PDU pdu, in
\* the order of the calls: the header, the payload, the pad (cbPad zero
\* bytes) and the footer.  The checksum runs over u.ab of the header (the 12
\* bytes behind the magic) and the payload; tsMillies is 0.
C27_Mutant_SendBytes(pdu) ==
    LET PduHdr  == PSP_SERIAL_EXT_2_PSP_PDU_START_MAGIC
                       \o U32ToBytes(U32Of(pdu.cbPdu)) \o U32ToBytes(U32Of(pdu.cPdus))
                       \o U16ToBytes(pdu.enmRrnId) \o <<pdu.idCcd, 0>>
        cbPad   == ((Len(pdu.abPayload) + 7) \div 8) * 8 - Len(pdu.abPayload)
        uChkSum == SumBytes(PduHdr) + SumBytes(pdu.abPayload)
    IN PduHdr \o pdu.abPayload \o Zeroes(cbPad)
           \o U32ToBytes(U32Neg(U32Of(uChkSum))) \o PSP_SERIAL_EXT_2_PSP_PDU_END_MAGIC
pspStubPduCtxSendBytes(pdu) ==
    LET PduHdr  == PSP_SERIAL_EXT_2_PSP_PDU_START_MAGIC
                       \o U32ToBytes(U32Of(pdu.cbPdu)) \o U32ToBytes(U32Of(pdu.cPdus))
                       \o U16ToBytes(pdu.enmRrnId) \o <<pdu.idCcd, 0>>
        cbPad   == ((Len(pdu.abPayload) + 7) \div 8) * 8 - Len(pdu.abPayload)
        uChkSum == SumBytes(SubSeq(PduHdr, 5, cbPduHdr)) + SumBytes(pdu.abPayload)
    IN PduHdr \o pdu.abPayload \o Zeroes(cbPad)
           \o U32ToBytes(U32Neg(U32Of(uChkSum))) \o PSP_SERIAL_EXT_2_PSP_PDU_END_MAGIC

\* The milliseconds of runloop waiting the model follows.
MaxExecTicks == 2

NoOp == [pc |-> "idle", kind |-> "none", enmRrnId |-> 0, cbResp |-> 0, req |-> << >>, cBeaconsSeen |-> 0]

C9_Mutant_ReqRespFinish(p, o, rc, pdu) ==
    IF rc # STS_INF_SUCCESS
    THEN [p |-> p, rc |-> rc, abResp |-> << >>]
    ELSE LET hdr == PduHdrFields(pdu)
             p1  == [p EXCEPT !.rcReqLast = hdr.rcReq]
         IN IF hdr.rcReq = 0
            THEN [p |-> p1, rc |-> STS_INF_SUCCESS, abResp |-> PduPayload(pdu)]
            ELSE [p |-> p1, rc |-> STS_ERR_PSP_PROXY_REQ_COMPLETED_WITH_ERROR, abResp |-> << >>]
\* The rest of pspStubPduCtxReqResp once pspStubPduCtxRecvId has returned rc
\* and, on success, the PDU.
ReqRespFinish(p, o, rc, pdu) ==
    IF rc # STS_INF_SUCCESS
    THEN [p |-> p, rc |-> rc, abResp |-> << >>]
    ELSE LET hdr == PduHdrFields(pdu)
             p1  == [p EXCEPT !.rcReqLast = hdr.rcReq]
         IN IF hdr.rcReq = 0
            THEN IF hdr.cbPdu.lo = o.cbResp
                 THEN [p |-> p1, rc |-> STS_INF_SUCCESS, abResp |-> PduPayload(pdu)]
                 ELSE [p |-> p1, rc |-> STS_ERR_PSP_PROXY_REQ_RESP_PAYLOAD_SZ_MISMATCH, abResp |-> << >>]
            ELSE [p |-> p1, rc |-> STS_ERR_PSP_PROXY_REQ_COMPLETED_WITH_ERROR, abResp |-> << >>]

C17_Mutant_QueryLastReqRc(p) == 0
\* pspStubPduCtxQueryLastReqRc: what it stores in *pReqRcLast.
pspStubPduCtxQueryLastReqRc(p) == p.rcReqLast

\* The fields of the PSPSERIALCONNECTRESP payload of pdu.
ConnectRespFields(pdu) ==
    LET F(i) == U32Num(U32FromBytes(SubSeq(pdu, cbPduHdr + 4 * i + 1, cbPduHdr + 4 * i + 4))) IN
    [cbPduMax |-> F(0), cbScratch |-> F(1), PspAddrScratch |-> F(2),
     cSysSockets |-> F(3), cCcdsPerSocket |-> F(4)]

C12_Mutant_ConnectApply(p, r, cBeaconsSeen) ==
    [p EXCEPT !.cbPduMax       = r.cbPduMax,
              !.cbScratch      = r.cbScratch,
              !.PspAddrScratch = r.PspAddrScratch,
              !.cSysSockets    = r.cSysSockets,
              !.cCcdsPerSocket = r.cCcdsPerSocket,
              !.cCcds          = r.cSysSockets * r.cCcdsPerSocket,
              !.fConnect       = TRUE,
              !.cBeaconsSeen   = cBeaconsSeen]
\* pspStubPduCtxConnect on the connect response r: the negotiated values are
\* taken over, the context is marked connected, the beacon counter noted at
\* the start of the handshake becomes cBeaconsSeen, cPduRecvNext becomes 1.
ConnectApply(p, r, cBeaconsSeen) ==
    [p EXCEPT !.cbPduMax       = r.cbPduMax,
              !.cbScratch      = r.cbScratch,
              !.PspAddrScratch = r.PspAddrScratch,
              !.cSysSockets    = r.cSysSockets,
              !.cCcdsPerSocket = r.cCcdsPerSocket,
              !.cCcds          = r.cSysSockets * r.cCcdsPerSocket,
              !.fConnect       = TRUE,
              !.cBeaconsSeen   = cBeaconsSeen,
              !.cPduRecvNext   = 1]

C18_Mutant_cbPduPayloadMax(p, cbReq) == p.cbPduMax - cbPduHdr - cbPduFooter
\* cbPduPayloadMax of the transfer functions for a request of cbReq bytes.
\* The C expression is of type size_t: below zero it wraps to a value above
\* every 32 bit length, which XferFits and XferMin take into account.
cbPduPayloadMax(p, cbReq) == p.cbPduMax - cbReq - cbPduHdr - cbPduFooter
XferFits(cb, cbMax) == cbMax < 0 \/ cb <= cbMax
XferMin(cb, cbMax) == IF cbMax < 0 THEN cb ELSE MIN(cb, cbMax)

\* The request structure of the transfer x as bytes.
XferReqFields(x) ==
    IF x.enmFmt = "mem"
    THEN U32ToBytes(U32Of(x.uAddr)) \o U32ToBytes(U32Of(x.cbThis))
    ELSE IF x.enmFmt = "x86"
    THEN U32ToBytes(U32Of(x.uAddr)) \o Zeroes(4) \o U32ToBytes(U32Of(x.cbThis)) \o Zeroes(4)
    ELSE U32ToBytes(U32Of(x.enmAddrSpace)) \o U32ToBytes(U32Of(x.uAddr)) \o Zeroes(8)
             \o U32ToBytes(U32Of(x.cbStride)) \o U32ToBytes(U32Of(x.cbThis))
             \o U32ToBytes(U32Of(x.fFlags)) \o Zeroes(4)

\* A transfer function of psp-stub-pdu.c as the values it works with: the
\* request it uses, whether the response carries data for the local buffer
\* (pspStubPduCtxReqResp with the buffer) or the request carries data from
\* it (pspStubPduCtxReqRespWr), and what it advances behind each chunk.
\* aSent notes the start address and length of every request sent, abGot
\* the response payloads of the chunks so far, one behind the other.
XferReq(fn, enmFmt, enmReq, enmResp, cbReq, fRead, fSendData, uAddr, cbXfer, abLocal) ==
    [fn |-> fn, enmFmt |-> enmFmt, enmReq |-> enmReq, enmResp |-> enmResp, cbReq |-> cbReq,
     idCcd |-> 0, fRead |-> fRead, fSendData |-> fSendData, fAdvLocal |-> TRUE, fIncrAddr |-> TRUE,
     enmAddrSpace |-> 0, cbStride |-> 0, fFlags |-> 0, cbData |-> cbXfer,
     uBase |-> uAddr, cbXfer |-> cbXfer, uAddr |-> uAddr, cbLeft |-> cbXfer, cbThis |-> 0,
     offLocal |-> 0, abLocal |-> abLocal,
     cbMax |-> cbPduPayloadMax(pThis, cbReq), fFast |-> XferFits(cbXfer, cbPduPayloadMax(pThis, cbReq)),
     aSent |-> << >>, abGot |-> << >>, fOthersPending |-> (ev.cReqOpen > 0)]

\* The next request of the transfer x is sent and its response awaited:
\* the whole transfer on the path without splitting, else the next
\* MIN(cbLeft, cbPduPayloadMax) bytes.
XferSend(p, x) ==
    LET cbThis == IF x.fFast THEN x.cbXfer ELSE XferMin(x.cbLeft, x.cbMax)
        cbSend == IF ~ x.fSendData THEN 0 ELSE IF x.fFast THEN x.cbData ELSE cbThis
        x1     == [x EXCEPT !.cbThis = cbThis, !.aSent = Append(x.aSent, <<x.uAddr, cbThis>>)]
        snd    == pspStubPduCtxSend(p, x.idCcd, x.enmReq,
                      XferReqFields(x1) \o SubSeq(x.abLocal, x.offLocal + 1, x.offLocal + cbSend))
    IN [p |-> snd.p, out |-> <<snd.pdu>>,
        op |-> [pc |-> "recv", kind |-> "xfer", enmRrnId |-> x.enmResp,
                cbResp |-> IF x.fRead THEN cbThis ELSE 0, req |-> x1, cBeaconsSeen |-> 0]]

C19_Mutant_XferAdvance(x, abResp) ==
    [x EXCEPT !.abLocal = IF x.fRead
                          THEN [i \in 1..Len(x.abLocal) |->
                                   IF i > x.offLocal /\ i <= x.offLocal + Len(abResp)
                                   THEN abResp[i - x.offLocal] ELSE x.abLocal[i]]
                          ELSE x.abLocal,
              !.offLocal = IF x.fAdvLocal THEN x.offLocal + x.cbThis ELSE x.offLocal,
              !.cbLeft = x.cbLeft - x.cbThis,
              !.abGot = x.abGot \o abResp]
\* Behind a successful chunk: the response's bytes are in the local buffer
\* (memcpy of pspStubPduCtxReqResp), buffer pointer and address move on by
\* the chunk, the rest shrinks by it.
XferAdvance(x, abResp) ==
    [x EXCEPT !.abLocal = IF x.fRead
                          THEN [i \in 1..Len(x.abLocal) |->
                                   IF i > x.offLocal /\ i <= x.offLocal + Len(abResp)
                                   THEN abResp[i - x.offLocal] ELSE x.abLocal[i]]
                          ELSE x.abLocal,
              !.offLocal = IF x.fAdvLocal THEN x.offLocal + x.cbThis ELSE x.offLocal,
              !.uAddr = IF x.fIncrAddr THEN x.uAddr + x.cbThis ELSE x.uAddr,
              !.cbLeft = x.cbLeft - x.cbThis,
              !.abGot = x.abGot \o abResp]

\* What the library call o does when its pspStubPduCtxRecvId returns rc
\* (and pdu on success): the context, the call's next wait or NoOp when it
\* returns, its outcome, and the requests it sends on the way.
OpContinue(p, o, rc, pdu) ==
    CASE o.kind = "reqresp" ->
            LET f == ReqRespFinish(p, o, rc, pdu) IN
            [p |-> f.p, op |-> NoOp, out |-> << >>,
             ret |-> [kind |-> "reqresp", rc |-> f.rc, abResp |-> f.abResp, req |-> o.req, pdu |-> pdu]]
      [] o.kind = "connect_beacon" ->
            IF rc # STS_INF_SUCCESS
            THEN [p |-> p, op |-> NoOp, out |-> << >>,
                  ret |-> [kind |-> "connect", rc |-> rc, abResp |-> << >>, req |-> << >>, pdu |-> << >>]]
            ELSE IF PduHdrFields(pdu).cbPdu.lo # cbBeaconNot
            THEN [p |-> p, op |-> NoOp, out |-> << >>,
                  ret |-> [kind |-> "connect", rc |-> STS_ERR_GENERIC, abResp |-> << >>, req |-> << >>, pdu |-> pdu]]
            ELSE LET snd == pspStubPduCtxSend(p, 0, PSPSERIALPDURRNID_REQUEST_CONNECT, << >>) IN
                 [p |-> snd.p, out |-> <<snd.pdu>>, ret |-> opRet,
                  op |-> [pc |-> "recv", kind |-> "connect_resp",
                          enmRrnId |-> PSPSERIALPDURRNID_RESPONSE_CONNECT, cbResp |-> 0, req |-> << >>,
                          cBeaconsSeen |-> U32Num(U32FromBytes(SubSeq(pdu, cbPduHdr + 1, cbPduHdr + 4)))]]
      [] o.kind = "connect_resp" ->
            IF rc # STS_INF_SUCCESS
            THEN [p |-> p, op |-> NoOp, out |-> << >>,
                  ret |-> [kind |-> "connect", rc |-> rc, abResp |-> << >>, req |-> << >>, pdu |-> << >>]]
            ELSE LET r == ConnectRespFields(pdu) IN
                 [p |-> ConnectApply(p, r, o.cBeaconsSeen),
                  op |-> NoOp, out |-> << >>,
                  ret |-> [kind |-> "connect", rc |-> STS_INF_SUCCESS, abResp |-> << >>, req |-> << >>, pdu |-> pdu]]
      [] o.kind = "xfer" ->
            \* a transfer function behind the pspStubPduCtxReqResp of a chunk
            LET f  == ReqRespFinish(p, o, rc, pdu)
                x1 == XferAdvance(o.req, f.abResp)
            IN IF f.rc # STS_INF_SUCCESS
               THEN [p |-> f.p, op |-> NoOp, out |-> << >>,
                     ret |-> [kind |-> "xfer", rc |-> f.rc, abResp |-> o.req.abLocal,
                              req |-> o.req, pdu |-> pdu]]
               ELSE IF o.req.fFast \/ x1.cbLeft = 0
               THEN [p |-> f.p, op |-> NoOp, out |-> << >>,
                     ret |-> [kind |-> "xfer", rc |-> STS_INF_SUCCESS, abResp |-> x1.abLocal,
                              req |-> x1, pdu |-> pdu]]
               ELSE LET nxt == XferSend(f.p, x1) IN
                    [p |-> nxt.p, op |-> nxt.op, out |-> nxt.out, ret |-> opRet]
      [] o.kind = "wfi" ->
            \* pspStubPduCtxPspWaitForIrq behind its pspStubPduCtxRecvId
            LET R(rcRet, ab) == [p |-> p, op |-> NoOp, out |-> << >>,
                                 ret |-> [kind |-> "wfi", rc |-> rcRet, abResp |-> ab,
                                          req |-> o.req, pdu |-> pdu]]
            IN IF rc = STS_INF_SUCCESS
               THEN IF PduHdrFields(pdu).cbPdu.lo = cbIrqNot /\ PduHdrFields(pdu).cbPdu.hi = 0
                    THEN R(STS_INF_SUCCESS, <<PduHdrFields(pdu).idCcd, pdu[cbPduHdr + 1] % 4>>)
                    ELSE R(STS_ERR_INVALID_PARAMETER, << >>)
               ELSE IF rc = STS_ERR_PSP_PROXY_TIMEOUT
               THEN R(STS_ERR_PSP_PROXY_WFI_NO_CHANGE, << >>)
               ELSE R(rc, << >>)
      [] o.kind = "exec_req" ->
            \* pspStubPduCtxPspCodeModExec behind its first pspStubPduCtxReqResp
            LET f == ReqRespFinish(p, o, rc, pdu) IN
            IF f.rc # STS_INF_SUCCESS
            THEN [p |-> f.p, op |-> NoOp, out |-> << >>,
                  ret |-> [kind |-> "exec", rc |-> f.rc, abResp |-> << >>, req |-> o.req, pdu |-> pdu]]
            ELSE [p |-> f.p, out |-> << >>, ret |-> opRet,
                  op |-> [o EXCEPT !.kind = "exec_loop", !.cbResp = 0,
                                   !.enmRrnId = PSPSERIALPDURRNID_NOTIFICATION_CODE_MOD_EXEC_FINISHED]]
      [] o.kind = "exec_loop" ->
            \* the runloop behind its pspStubPduCtxRecvId with 1 ms to wait
            IF rc = STS_INF_SUCCESS
            THEN [p |-> p, op |-> NoOp, out |-> << >>,
                  ret |-> [kind |-> "exec", rc |-> STS_INF_SUCCESS,
                           abResp |-> SubSeq(pdu, cbPduHdr + 1, cbPduHdr + 4),
                           req |-> o.req, pdu |-> pdu]]
            ELSE IF rc = STS_ERR_PSP_PROXY_TIMEOUT
            THEN LET cbAvail    == IF p.pProxyIoIf THEN o.req.cbInAvail ELSE 0
                     cbThisRead == MIN(cbAvail, 512)
                     oTick      == [o EXCEPT !.req.cMsWaited = o.req.cMsWaited + 1]
                 IN IF cbAvail > 0
                    THEN LET snd == pspStubPduCtxSend(p, o.req.idCcd,
                                        PSPSERIALPDURRNID_REQUEST_INPUT_BUF_WRITE,
                                        Zeroes(cbInBufWrReq) \o [i \in 1..cbThisRead |-> 105])
                         IN [p |-> snd.p, out |-> <<snd.pdu>>, ret |-> opRet,
                             op |-> [oTick EXCEPT !.kind = "exec_inwr",
                                                  !.enmRrnId = PSPSERIALPDURRNID_RESPONSE_INPUT_BUF_WRITE,
                                                  !.req.cbInAvail = cbAvail - cbThisRead]]
                    ELSE [p |-> p, out |-> << >>, ret |-> opRet, op |-> oTick]
            ELSE [p |-> p, op |-> NoOp, out |-> << >>,
                  ret |-> [kind |-> "exec", rc |-> rc, abResp |-> << >>, req |-> o.req, pdu |-> << >>]]
      [] o.kind = "exec_inwr" ->
            \* the runloop behind the pspStubPduCtxReqRespWr that forwards input
            LET f == ReqRespFinish(p, o, rc, pdu) IN
            IF f.rc # STS_INF_SUCCESS
            THEN [p |-> f.p, op |-> NoOp, out |-> << >>,
                  ret |-> [kind |-> "exec", rc |-> f.rc, abResp |-> << >>, req |-> o.req, pdu |-> pdu]]
            ELSE [p |-> f.p, out |-> << >>, ret |-> opRet,
                  op |-> [o EXCEPT !.kind = "exec_loop",
                                   !.enmRrnId = PSPSERIALPDURRNID_NOTIFICATION_CODE_MOD_EXEC_FINISHED]]
      [] OTHER ->
            \* a bare pspStubPduCtxRecvId
            [p |-> p, op |-> NoOp, out |-> << >>,
             ret |-> [kind |-> o.kind, rc |-> rc, abResp |-> << >>, req |-> o.req, pdu |-> pdu]]

\* One pass of the receive loop inside the pspStubPduCtxRecvId of the call
\* in progress, reading the next n bytes from the provider.
RecvIdPass(p, o, ab) ==
    LET r == RecvPass(p, ab) IN
    IF ~ r.done
    THEN [p |-> r.p, op |-> o, out |-> << >>, ret |-> opRet, what |-> r.what]
    ELSE IF r.rc # STS_INF_SUCCESS
    THEN OpContinue(r.p, o, r.rc, << >>) @@ [what |-> r.what]
    ELSE LET d == pspStubPduCtxRecvIdDispatch(r.p, r.pdu, o.enmRrnId) IN
         IF d.res = "return"
         THEN OpContinue(d.p, o, STS_INF_SUCCESS, r.pdu) @@ [what |-> "pdu_returned"]
         ELSE IF d.res = "continue"
         THEN [p |-> d.p, op |-> o, out |-> << >>, ret |-> opRet, what |-> "pdu_handled"]
         ELSE OpContinue(d.p, o, STS_ERR_GENERIC, << >>) @@ [what |-> "pdu_rejected"]

NoRet == [kind |-> "none", rc |-> STS_INF_SUCCESS, abResp |-> << >>, req |-> << >>, pdu |-> << >>]

\* History kept next to the program state: what the last receive step did,
\* the PDU pspStubPduCtxRecv handed out in it, and the header sequence
\* number of the PDU handed out before (the value the counter was set to,
\* right after a connect), the number of requests sent whose response
\* has not been returned, and whether a receive has failed on a beacon with
\* a non-consecutive counter while connected; the texts passed to pfnLogMsg,
\* the payload bytes of the log message PDUs pspStubPduCtxLogMsgHandle was
\* called with, and whether it has dropped one.
EvAfter(r, pdu) ==
    LET fDelivered == r.what \in {"pdu_returned", "pdu_handled", "pdu_rejected"}
        fLogMsg    == /\ r.what = "pdu_handled"
                      /\ PduHdrFields(pdu).enmRrnId = PSPSERIALPDURRNID_NOTIFICATION_LOG_MSG
                      /\ pThis.pProxyIoIf
        log        == pspStubPduCtxLogMsgHandle(pThis, pdu)
    IN
    [what    |-> r.what,
     pdu     |-> IF fDelivered THEN pdu ELSE << >>,
     seqPrev |-> IF ~ pThis.fConnect /\ r.p.fConnect THEN r.p.cPduRecvNext
                 ELSE IF fDelivered THEN U32Num(PduHdrFields(pdu).cPdus)
                 ELSE ev.seqPrev,
     cReqOpen |-> (IF r.what = "pdu_returned" /\ op.kind \in {"reqresp", "xfer"} /\ ev.cReqOpen > 0
                   THEN ev.cReqOpen - 1
                   ELSE ev.cReqOpen)
                  + (IF r.op.kind = "xfer" THEN Len(r.out) ELSE 0),
     fResetDetected |-> \/ ev.fResetDetected
                        \/ /\ r.what = "pdu_rejected"
                           /\ pThis.fConnect
                           /\ PduHdrFields(pdu).enmRrnId = PSPSERIALPDURRNID_NOTIFICATION_BEACON,
     aLogMsgs    |-> IF fLogMsg THEN ev.aLogMsgs \o log.aMsgs ELSE ev.aLogMsgs,
     abLogRcvd   |-> IF fLogMsg THEN ev.abLogRcvd \o PduPayload(pdu) ELSE ev.abLogRcvd,
     fLogDropped |-> ev.fLogDropped \/ (fLogMsg /\ log.fDropped)]

\* The read sizes the provider may deliver in one pass: with fragmentation
\* any cbThisRecv from 1 to MIN(bytes on the wire, cbPduRecvLeft).
ReadSizes(fFrag) ==
    LET cbMost == MIN(Len(wire), pThis.cbPduRecvLeft) IN
    IF fFrag THEN 1..cbMost ELSE { cbMost }

\* pspStubPduCtxRecv, one pass of its loop: poll reports data, peek and read
\* deliver cbThisRecv bytes.
RecvIter(fFrag) ==
    /\ op.pc = "recv"
    /\ wire # << >>
    /\ \E cbThisRecv \in ReadSizes(fFrag) :
          LET r == RecvIdPass(pThis, op, SubSeq(wire, 1, cbThisRecv)) IN
          /\ pThis' = r.p
          /\ op' = r.op
          /\ opRet' = r.ret
          /\ hostOut' = hostOut \o r.out
          /\ ev' = EvAfter(r, RecvPass(pThis, SubSeq(wire, 1, cbThisRecv)).pdu)
          /\ wire' = SubSeq(wire, cbThisRecv + 1, Len(wire))
    /\ UNCHANGED <<stub, scratchVars, provVars>>

\* pspStubPduCtxRecv when the provider's poll times out: no data arrived
\* within the budget.
RecvTimeout ==
    /\ op.pc = "recv"
    /\ wire = << >>
    /\ op.kind = "exec_loop" => op.req.cMsWaited < MaxExecTicks
    /\ LET r == OpContinue(pThis, op, STS_ERR_PSP_PROXY_TIMEOUT, << >>) IN
       /\ pThis' = r.p
       /\ op' = r.op
       /\ opRet' = r.ret
       /\ hostOut' = hostOut \o r.out
    /\ ev' = [ev EXCEPT !.what = "timeout", !.pdu = << >>]
    /\ UNCHANGED <<wire, stub, scratchVars, provVars>>


(***************************************************************************)
(* The providers' poll (psp-proxy-provider-tcp.c, -serial.c, -em100tcp.c). *)
(* One step is one pass of the poll function's loop; what poll(2) or the   *)
(* peek of the SPI flash ring buffer returns is the environment's choice.  *)
(***************************************************************************)

MaxPollIters == 6
ProvKinds == {"tcp", "serial", "em100tcp"}
PollBudgets == {1, 10000}

ProvIdle ==
    prov = [kind |-> "none", pc |-> "idle", rc |-> STS_INF_SUCCESS, cMillies |-> 0,
            cIters |-> 0, fBudgetElapsed |-> FALSE]

\* The engine calls the provider's poll with a budget of cMillies.
ProvPollCall(kind, cMillies) ==
    /\ prov.pc # "poll"
    /\ prov.cIters < MaxPollIters
    /\ prov' = [kind |-> kind, pc |-> "poll", rc |-> STS_INF_SUCCESS, cMillies |-> cMillies,
                cIters |-> prov.cIters, fBudgetElapsed |-> FALSE]
    /\ UNCHANGED <<scratchVars, pduVars>>

\* One pass of the for (;;) of tcpProvPduIoIfPoll and serialProvPduIoIfPoll
\* (the same code): poll(2) returned rcPsx, 1 for an event on the
\* descriptor, 0 when cMillies went by without one, -1 for an error.
PsxPollPass(rcPsx) ==
    [prov EXCEPT !.pc = IF rcPsx = 1 THEN "returned" ELSE "poll",
                 !.rc = IF rcPsx = -1 THEN STS_ERR_GENERIC ELSE prov.rc,
                 !.cIters = prov.cIters + 1,
                 !.fBudgetElapsed = prov.fBudgetElapsed \/ rcPsx = 0]

tcpProvPduIoIfPoll(rcPsx) ==
    /\ prov.kind = "tcp"
    /\ prov.pc = "poll"
    /\ prov.cIters < MaxPollIters
    /\ prov' = PsxPollPass(rcPsx)
    /\ UNCHANGED <<scratchVars, pduVars>>

serialProvPduIoIfPoll(rcPsx) ==
    /\ prov.kind = "serial"
    /\ prov.pc = "poll"
    /\ prov.cIters < MaxPollIters
    /\ prov' = PsxPollPass(rcPsx)
    /\ UNCHANGED <<scratchVars, pduVars>>

\* One pass of the do-while of em100TcpProvPduIoIfPoll: the peek returned
\* rcPeek and cbAvail; fElapsed says whether cMillies have gone by since the
\* call.
em100TcpProvPduIoIfPoll(rcPeek, cbAvail, fElapsed) ==
    /\ prov.kind = "em100tcp"
    /\ prov.pc = "poll"
    /\ prov.cIters < MaxPollIters
    /\ prov' = [prov EXCEPT !.pc = IF rcPeek = STS_INF_SUCCESS /\ cbAvail = 0 THEN "poll" ELSE "returned",
                            !.rc = rcPeek,
                            !.cIters = prov.cIters + 1,
                            !.fBudgetElapsed = prov.fBudgetElapsed
                                                  \/ (fElapsed /\ rcPeek = STS_INF_SUCCESS /\ cbAvail = 0)]
    /\ UNCHANGED <<scratchVars, pduVars>>

ProvNext ==
    \/ \E kind \in ProvKinds, cMillies \in PollBudgets : ProvPollCall(kind, cMillies)
    \/ \E rcPsx \in {-1, 0, 1} : tcpProvPduIoIfPoll(rcPsx)
    \/ \E rcPsx \in {-1, 0, 1} : serialProvPduIoIfPoll(rcPsx)
    \/ \E rcPeek \in {STS_INF_SUCCESS, STS_ERR_GENERIC}, cbAvail \in {0, 1}, fElapsed \in BOOLEAN :
          em100TcpProvPduIoIfPoll(rcPeek, cbAvail, fElapsed)

(***************************************************************************)
(* The providers' initialisation.  One step is one call of a provider's    *)
(* pfnCtxInit on a new provider context; what the parsing of the device    *)
(* string, socket(2), connect(2), open(2), the terminal configuration, the *)
(* creation of the PDU context and the connect handshake return is the     *)
(* environment's choice.  prov keeps the descriptors open in the process.  *)
(***************************************************************************)

MaxProvInits == 2

\* What socket(2) and open(2) return on success: the lowest descriptor that
\* is not open.
FdLowestFree(afFdOpen) ==
    CHOOSE i \in 0..Cardinality(afFdOpen) :
        /\ i \notin afFdOpen
        /\ \A j \in 0..(i - 1) : j \in afFdOpen

\* The state after a pfnCtxInit that returned rc: the descriptor its
\* socket() or open() returned (-1 for none), the descriptors open now,
\* whether the PDU context it created is still allocated, and the provider
\* contexts the program has initialised so far.
ProvInitRet(kind, rc, iFdOpened, afFdOpen, fPduCtx) ==
    [kind |-> kind, pc |-> "init_returned", rc |-> rc, iFdOpened |-> iFdOpened,
     afFdOpen |-> afFdOpen, fPduCtx |-> fPduCtx, cInits |-> prov.cInits + 1,
     aCtx |-> Append(prov.aCtx, [kind |-> kind, rc |-> rc, iFd |-> iFdOpened])]

\* The return codes of pspStubPduCtxCreate and of pspStubPduCtxConnect.
RcCreate == {STS_INF_SUCCESS, STS_ERR_GENERIC}
RcConnect == {STS_INF_SUCCESS, STS_ERR_PSP_PROXY_TIMEOUT, STS_ERR_GENERIC}

\* tcpProvCtxInit: fDevFits, fSep and fHost say whether the device string
\* fits the buffer, has a ':' and names a known host; fSocket whether
\* socket() succeeds; rcPsx is what connect() returns.
tcpProvCtxInit(fDevFits, fSep, fHost, fSocket, rcPsx, rcCreate, rcConnect) ==
    /\ prov.cInits < MaxProvInits
    /\ LET iFdCon   == IF fSocket THEN FdLowestFree(prov.afFdOpen) ELSE -1
           afOpened == prov.afFdOpen \cup {iFdCon}
           afClosed == prov.afFdOpen \ {iFdCon}
       IN prov' =
            IF ~ (fDevFits /\ fSep /\ fHost)
            THEN ProvInitRet("tcp", STS_ERR_GENERIC, -1, prov.afFdOpen, FALSE)
            ELSE IF ~ (iFdCon > -1)
            THEN ProvInitRet("tcp", STS_ERR_GENERIC, -1, prov.afFdOpen, FALSE)
            ELSE IF rcPsx # 0
            THEN ProvInitRet("tcp", STS_ERR_GENERIC, iFdCon, afClosed, FALSE)
            ELSE IF rcCreate # STS_INF_SUCCESS
            THEN ProvInitRet("tcp", rcCreate, iFdCon, afClosed, FALSE)
            ELSE IF rcConnect # STS_INF_SUCCESS
            THEN ProvInitRet("tcp", rcConnect, iFdCon, afClosed, FALSE)
            ELSE ProvInitRet("tcp", STS_INF_SUCCESS, iFdCon, afOpened, TRUE)
    /\ UNCHANGED <<scratchVars, pduVars>>

\* serialProvCtxInit: rcParse is what serialProvCtxParseDevice returns,
\* fOpen whether open() succeeds, rcTermios what serialProvCtxSetTermiosCfg
\* returns.  No path closes the descriptor.
serialProvCtxInit(rcParse, fOpen, rcTermios, rcCreate, rcConnect) ==
    /\ prov.cInits < MaxProvInits
    /\ LET iFd      == IF fOpen THEN FdLowestFree(prov.afFdOpen) ELSE -1
           afOpened == IF fOpen THEN prov.afFdOpen \cup {iFd} ELSE prov.afFdOpen
       IN prov' =
            IF rcParse # STS_INF_SUCCESS
            THEN ProvInitRet("serial", rcParse, -1, prov.afFdOpen, FALSE)
            ELSE IF ~ (iFd > 0)
            THEN ProvInitRet("serial", STS_ERR_GENERIC, iFd, afOpened, FALSE)
            ELSE IF rcTermios # STS_INF_SUCCESS
            THEN ProvInitRet("serial", rcTermios, iFd, afOpened, FALSE)
            ELSE IF rcCreate # STS_INF_SUCCESS
            THEN ProvInitRet("serial", rcCreate, iFd, afOpened, FALSE)
            ELSE IF rcConnect # STS_INF_SUCCESS
            THEN ProvInitRet("serial", rcConnect, iFd, afOpened, FALSE)
            ELSE ProvInitRet("serial", STS_INF_SUCCESS, iFd, afOpened, TRUE)
    /\ UNCHANGED <<scratchVars, pduVars>>

\* em100TcpProvCtxInit: as tcpProvCtxInit, with em100TcpSpiMsgBufferInit
\* (returning rcMsgBuf) between connect() and the creation of the PDU context.
em100TcpProvCtxInit(fDevFits, fSep, fHost, fSocket, rcPsx, rcMsgBuf, rcCreate, rcConnect) ==
    /\ prov.cInits < MaxProvInits
    /\ LET iFdCon   == IF fSocket THEN FdLowestFree(prov.afFdOpen) ELSE -1
           afOpened == prov.afFdOpen \cup {iFdCon}
           afClosed == prov.afFdOpen \ {iFdCon}
       IN prov' =
            IF ~ (fDevFits /\ fSep /\ fHost)
            THEN ProvInitRet("em100tcp", STS_ERR_GENERIC, -1, prov.afFdOpen, FALSE)
            ELSE IF ~ (iFdCon > -1)
            THEN ProvInitRet("em100tcp", STS_ERR_GENERIC, -1, prov.afFdOpen, FALSE)
            ELSE IF rcPsx # 0
            THEN ProvInitRet("em100tcp", STS_ERR_GENERIC, iFdCon, afClosed, FALSE)
            ELSE IF rcMsgBuf # STS_INF_SUCCESS
            THEN ProvInitRet("em100tcp", rcMsgBuf, iFdCon, afClosed, FALSE)
            ELSE IF rcCreate # STS_INF_SUCCESS
            THEN ProvInitRet("em100tcp", rcCreate, iFdCon, afClosed, FALSE)
            ELSE IF rcConnect # STS_INF_SUCCESS
            THEN ProvInitRet("em100tcp", rcConnect, iFdCon, afClosed, FALSE)
            ELSE ProvInitRet("em100tcp", STS_INF_SUCCESS, iFdCon, afOpened, TRUE)
    /\ UNCHANGED <<scratchVars, pduVars>>

\* No provider initialised yet; the process has its standard descriptors
\* open, or has closed its standard input.
ProvInitIdle ==
    \E afFdOpen \in {{0, 1, 2}, {1, 2}} :
        prov = [kind |-> "none", pc |-> "idle", rc |-> STS_INF_SUCCESS, iFdOpened |-> -1,
                afFdOpen |-> afFdOpen, fPduCtx |-> FALSE, cInits |-> 0, aCtx |-> << >>]

ProvInitNext ==
    \/ \E fDevFits \in BOOLEAN, fSep \in BOOLEAN, fHost \in BOOLEAN, fSocket \in BOOLEAN,
          rcPsx \in {-1, 0}, rcCreate \in RcCreate, rcConnect \in RcConnect :
          tcpProvCtxInit(fDevFits, fSep, fHost, fSocket, rcPsx, rcCreate, rcConnect)
    \/ \E rcParse \in RcCreate, fOpen \in BOOLEAN, rcTermios \in RcCreate,
          rcCreate \in RcCreate, rcConnect \in RcConnect :
          serialProvCtxInit(rcParse, fOpen, rcTermios, rcCreate, rcConnect)
    \/ \E fDevFits \in BOOLEAN, fSep \in BOOLEAN, fHost \in BOOLEAN, fSocket \in BOOLEAN,
          rcPsx \in {-1, 0}, rcMsgBuf \in RcCreate, rcCreate \in RcCreate, rcConnect \in RcConnect :
          em100TcpProvCtxInit(fDevFits, fSep, fHost, fSocket, rcPsx, rcMsgBuf, rcCreate, rcConnect)



(***************************************************************************)
(* The stub side of the wire (specification sections 3 and 5): how a PDU   *)
(* is laid out in bytes, and the PDUs a stub sends.                        *)
(***************************************************************************)

\* The bytes between the start magic and the footer of the PDU d.
PduEncodeBody(d) ==
    U32ToBytes(U32Of(d.cbPdu)) \o U32ToBytes(U32Of(d.cPdus)) \o U16ToBytes(d.enmRrnId)
        \o <<d.idCcd, d.rcReq>> \o d.abPayload \o Zeroes(PadTo8(Len(d.abPayload)))

\* The stub-to-host PDU d on the wire; the checksum makes the bytes behind
\* the start magic up to the end of the checksum field sum up to 0.
PduEncode(d) ==
    PSP_SERIAL_PSP_2_EXT_PDU_START_MAGIC \o PduEncodeBody(d)
        \o U32ToBytes(U32Neg(U32Of(SumBytes(PduEncodeBody(d)))))
        \o PSP_SERIAL_PSP_2_EXT_PDU_END_MAGIC

\* The wire bytes ab with the byte at position i changed.
ByteFlip(ab, i) == [ab EXCEPT ![i] = (ab[i] + 1) % 256]

\* A beacon notification with the given header sequence number and counter.
StubBeaconPdu(cPdus, cBeaconsSent) ==
    [cbPdu |-> cbBeaconNot, cPdus |-> cPdus, enmRrnId |-> PSPSERIALPDURRNID_NOTIFICATION_BEACON,
     idCcd |-> 0, rcReq |-> 0, abPayload |-> U32ToBytes(U32Of(cBeaconsSent))]

\* What the stub reports in its connect response.
StubConnectResp ==
    [cbPduMax |-> 4096, cbScratch |-> ScratchSize, PspAddrScratch |-> ScratchStart,
     cSysSockets |-> 1, cCcdsPerSocket |-> 2]

\* The context of a host that connected on the stub's first beacon.
ConnectedCtx ==
    [PduCtxCreated EXCEPT !.fConnect = TRUE, !.cPduRecvNext = 1, !.cPdusSent = 1,
                          !.cBeaconsSeen = 1,
                          !.cbPduMax = StubConnectResp.cbPduMax,
                          !.cbScratch = StubConnectResp.cbScratch,
                          !.PspAddrScratch = StubConnectResp.PspAddrScratch,
                          !.cSysSockets = StubConnectResp.cSysSockets,
                          !.cCcdsPerSocket = StubConnectResp.cCcdsPerSocket,
                          !.cCcds = StubConnectResp.cSysSockets * StubConnectResp.cCcdsPerSocket]

(***************************************************************************)
(* Receiving from a wire that holds junk and PDUs: a pspStubPduCtxRecvId   *)
(* runs against the bytes a stub has written, under every fragmentation.   *)
(***************************************************************************)

MaxJunk == 4
MaxPayloadLen == 9
JunkBytes == {255, 80, 83, 62}
PayloadSeeds == {0, 250}
RecvRrnIds ==
    { PSPSERIALPDURRNID_RESPONSE_PSP_MEM_READ,
      PSPSERIALPDURRNID_NOTIFICATION_BEACON,
      PSPSERIALPDURRNID_NOTIFICATION_CODE_MOD_EXEC_FINISHED }
RecvDefects == {"rrnid", "cbPdu", "idCcd", "seq", "chksum", "endmagic", "dir"}

SeqsUpTo(S, n) == UNION { [1..k -> S] : k \in 0..n }

RecvPayloads ==
    { [i \in 1..n |-> (b + i) % 256] : n \in 0..MaxPayloadLen, b \in PayloadSeeds }
        \cup { PSP_SERIAL_PSP_2_EXT_PDU_START_MAGIC, PSP_SERIAL_PSP_2_EXT_PDU_END_MAGIC }

\* The well-formed PDUs a context in state p accepts next.
WellFormedPdus(p) ==
    { [cbPdu |-> Len(ab), cPdus |-> p.cPduRecvNext + 1, enmRrnId |-> id,
       idCcd |-> c, rcReq |-> rcq, abPayload |-> ab] :
          id \in RecvRrnIds, c \in 0..(p.cCcds - 1), rcq \in {0, 1}, ab \in RecvPayloads }

\* The PDU d with one defect, as the stub's descriptor and as wire bytes.
DefectPdu(p, d, defect) ==
    CASE defect = "rrnid"  -> [d EXCEPT !.enmRrnId = PSPSERIALPDURRNID_REQUEST_CONNECT]
      [] defect = "cbPdu"  -> [d EXCEPT !.cbPdu = cbPduBuf - cbPduHdr - cbPduFooter + 1]
      [] defect = "idCcd"  -> [d EXCEPT !.idCcd = p.cCcds]
      [] defect = "seq"    -> [d EXCEPT !.cPdus = d.cPdus + 1]
      [] OTHER             -> d

DefectBytes(p, d, defect) ==
    LET ab == PduEncode(DefectPdu(p, d, defect)) IN
    CASE defect = "chksum"   -> ByteFlip(ab, Len(ab) - 7)
      [] defect = "endmagic" -> ByteFlip(ab, Len(ab))
      [] defect = "dir"      -> PSP_SERIAL_EXT_2_PSP_PDU_START_MAGIC
                                    \o SubSeq(ab, 5, Len(ab) - 4)
                                    \o PSP_SERIAL_EXT_2_PSP_PDU_END_MAGIC
      [] OTHER               -> ab

\* A scenario: the context, the junk and the PDUs on the wire.
RecvScenarios ==
    LET ctxs == { PduCtxCreated, ConnectedCtx } IN
    \* every well-formed PDU on a clean wire
    UNION { { [p |-> p, junk |-> << >>, defect |-> "none", sent |-> <<d>>, wire |-> PduEncode(d)] :
                  d \in WellFormedPdus(p) } : p \in ctxs }
    \cup
    \* junk in front of a beacon
    { [p |-> p, junk |-> j, defect |-> "none",
       sent |-> <<StubBeaconPdu(p.cPduRecvNext + 1, 7)>>,
       wire |-> j \o PduEncode(StubBeaconPdu(p.cPduRecvNext + 1, 7))] :
          p \in ctxs, j \in SeqsUpTo(JunkBytes, MaxJunk) }
    \cup
    \* a PDU with a defect, followed by the stub's next PDU
    { [p |-> p, junk |-> << >>, defect |-> df,
       sent |-> << DefectPdu(p, StubBeaconPdu(p.cPduRecvNext + 1, 7), df),
                   StubBeaconPdu(p.cPduRecvNext + 2, 8) >>,
       wire |-> DefectBytes(p, StubBeaconPdu(p.cPduRecvNext + 1, 7), df)
                    \o PduEncode(StubBeaconPdu(p.cPduRecvNext + 2, 8))] :
          p \in ctxs, df \in RecvDefects }

RecvInit ==
    /\ ScratchInit
    /\ ProvIdle
    /\ \E sc \in RecvScenarios :
          /\ pThis = sc.p
          /\ wire = sc.wire
          /\ stub = [junk |-> sc.junk, defect |-> sc.defect, sent |-> sc.sent]
          /\ op = [pc |-> "recv", kind |-> "recvid",
                   enmRrnId |-> sc.sent[Len(sc.sent)].enmRrnId,
                   cbResp |-> 0, req |-> << >>, cBeaconsSeen |-> 0]
          /\ ev = [what |-> "none", pdu |-> << >>, seqPrev |-> sc.p.cPduRecvNext, cReqOpen |-> 0, fResetDetected |-> FALSE,
                              aLogMsgs |-> << >>, abLogRcvd |-> << >>, fLogDropped |-> FALSE]
    /\ hostOut = << >>
    /\ opRet = NoRet

RecvNext ==
    \/ RecvIter(TRUE)
    \/ RecvTimeout

SpecRecv == RecvInit /\ [][RecvNext]_vars


(***************************************************************************)
(* A host that connects and reads PSP memory, against a stub that sends    *)
(* beacons, answers requests, may answer late, may lose a PDU and may      *)
(* restart.  The stub's PDUs arrive one after the other: it writes the     *)
(* next one when the host has read the one before.                         *)
(***************************************************************************)

MaxPdusSent == 3
MaxBeacons == 2
MaxStubFaults == 1
ReadAddrs == { ScratchStart, ScratchStart + 1 }
ReadSizesReq == { 1, 2 }

\* What the stub's memory holds at PspAddr, cb bytes, before any write.
StubMem(PspAddr, cb) == [i \in 1..cb |-> (PspAddr + i - 1) % 251]

\* The caller's buffer before a read, and the bytes a caller writes.
LocalBuf(cb) == [i \in 1..cb |-> 170]
WriteData(cb) == [i \in 1..cb |-> 200 + i]

\* pspStubPduCtxConnect: called once by the provider's init; it starts by
\* waiting for a beacon.
pspStubPduCtxConnect ==
    /\ op.pc = "idle"
    /\ ~ pThis.fConnect
    /\ pThis.cPdusSent < MaxPdusSent
    /\ op' = [pc |-> "recv", kind |-> "connect_beacon",
              enmRrnId |-> PSPSERIALPDURRNID_NOTIFICATION_BEACON,
              cbResp |-> 0, req |-> << >>, cBeaconsSeen |-> 0]
    /\ pThis' = [pThis EXCEPT !.cchLogMsgAvail = 0, !.achLogMsg = << >>]
    /\ opRet' = NoRet
    /\ UNCHANGED <<wire, hostOut, stub, ev, scratchVars, provVars>>

\* pspStubPduCtxPspMemRead: on the path without splitting the request is
\* sent and the call waits for the response; else the first chunk is
\* requested.
pspStubPduCtxPspMemRead(uPspAddr, cbRead) ==
    /\ op.pc = "idle"
    /\ pThis.fConnect
    /\ pThis.cPdusSent < MaxPdusSent
    /\ IF XferFits(cbRead, cbPduPayloadMax(pThis, cbMemXferReq))
       THEN /\ LET snd == pspStubPduCtxSend(pThis, 0, PSPSERIALPDURRNID_REQUEST_PSP_MEM_READ,
                                            U32ToBytes(U32Of(uPspAddr)) \o U32ToBytes(U32Of(cbRead)))
               IN /\ pThis' = snd.p
                  /\ hostOut' = Append(hostOut, snd.pdu)
            /\ op' = [pc |-> "recv", kind |-> "reqresp",
                      enmRrnId |-> PSPSERIALPDURRNID_RESPONSE_PSP_MEM_READ,
                      cbResp |-> cbRead,
                      req |-> [uPspAddr |-> uPspAddr, cbRead |-> cbRead,
                               fOthersPending |-> (ev.cReqOpen > 0)],
                      cBeaconsSeen |-> 0]
       ELSE LET s == XferSend(pThis, XferReq("PspMemRead", "mem",
                                   PSPSERIALPDURRNID_REQUEST_PSP_MEM_READ,
                                   PSPSERIALPDURRNID_RESPONSE_PSP_MEM_READ, cbMemXferReq,
                                   TRUE, FALSE, uPspAddr, cbRead, LocalBuf(cbRead)))
            IN /\ pThis' = s.p
               /\ hostOut' = hostOut \o s.out
               /\ op' = s.op
    /\ opRet' = NoRet
    /\ ev' = [ev EXCEPT !.cReqOpen = ev.cReqOpen + 1]
    /\ UNCHANGED <<wire, stub, scratchVars, provVars>>

\* The stub emits its periodic beacon.
StubBeacon ==
    /\ stub.cBeaconsSent < MaxBeacons
    /\ wire = << >>
    /\ wire' = wire \o PduEncode(StubBeaconPdu(stub.cPdus + 1, stub.cBeaconsSent + 1))
    /\ stub' = [stub EXCEPT !.cPdus = stub.cPdus + 1, !.cBeaconsSent = stub.cBeaconsSent + 1]
    /\ UNCHANGED <<pThis, hostOut, op, opRet, ev, scratchVars, provVars>>

\* Bit fBit (a power of two) of the flags f.
FlagSet(f, fBit) == (f \div fBit) % 2 = 1

\* The transfer request req as the stub reads it: address space, start
\* address, length, direction and the data behind the request structure.
StubXferOf(req) ==
    LET id   == req.enmRrnId
        ab   == req.abPayload
        F(o) == U32Num(U32FromBytes(SubSeq(ab, o + 1, o + 4)))
    IN IF id \in {PSPSERIALPDURRNID_REQUEST_PSP_MEM_READ, PSPSERIALPDURRNID_REQUEST_PSP_MEM_WRITE,
                  PSPSERIALPDURRNID_REQUEST_PSP_SMN_READ, PSPSERIALPDURRNID_REQUEST_PSP_SMN_WRITE}
       THEN [enmAddrSpace |-> IF id \in {PSPSERIALPDURRNID_REQUEST_PSP_MEM_READ,
                                         PSPSERIALPDURRNID_REQUEST_PSP_MEM_WRITE}
                              THEN PSPADDRSPACE_PSP_MEM ELSE PSPADDRSPACE_SMN,
             uAddr |-> F(0), cbXfer |-> F(4), cbStride |-> 1,
             fRead |-> id \in {PSPSERIALPDURRNID_REQUEST_PSP_MEM_READ,
                               PSPSERIALPDURRNID_REQUEST_PSP_SMN_READ},
             fMemset |-> FALSE, fIncrAddr |-> TRUE,
             abData |-> SubSeq(ab, cbMemXferReq + 1, Len(ab))]
       ELSE IF id \in {PSPSERIALPDURRNID_REQUEST_PSP_X86_MEM_READ,
                       PSPSERIALPDURRNID_REQUEST_PSP_X86_MEM_WRITE}
       THEN [enmAddrSpace |-> PSPADDRSPACE_X86_MEM,
             uAddr |-> F(0), cbXfer |-> F(8), cbStride |-> 1,
             fRead |-> id = PSPSERIALPDURRNID_REQUEST_PSP_X86_MEM_READ,
             fMemset |-> FALSE, fIncrAddr |-> TRUE,
             abData |-> SubSeq(ab, cbX86MemXferReq + 1, Len(ab))]
       ELSE [enmAddrSpace |-> F(0),
             uAddr |-> F(4), cbXfer |-> F(20), cbStride |-> F(16),
             fRead |-> FlagSet(F(24), PSP_SERIAL_DATA_XFER_F_READ),
             fMemset |-> FlagSet(F(24), PSP_SERIAL_DATA_XFER_F_MEMSET),
             fIncrAddr |-> FlagSet(F(24), PSP_SERIAL_DATA_XFER_F_INCR_ADDR),
             abData |-> SubSeq(ab, cbDataXferReq + 1, Len(ab))]

\* The byte the stub's address space holds at uAddr now.
StubByte(enmAddrSpace, uAddr) ==
    IF <<enmAddrSpace, uAddr>> \in DOMAIN stub.mem
    THEN stub.mem[<<enmAddrSpace, uAddr>>]
    ELSE StubMem(uAddr, 1)[1]

\* What the stub reads for the transfer t: cbXfer bytes from uAddr on, or
\* the same cbStride bytes again and again when the address does not move.
StubRead(t) ==
    [i \in 1..t.cbXfer |->
        StubByte(t.enmAddrSpace,
                 IF t.fIncrAddr THEN t.uAddr + i - 1 ELSE t.uAddr + ((i - 1) % t.cbStride))]

\* The stub's memory behind the write t: the data (one stride of it,
\* repeated, for a memset) from uAddr on, or the last stride at uAddr when
\* the address does not move.
StubWritten(t) ==
    LET D(i) == IF t.fMemset THEN t.abData[((i - 1) % t.cbStride) + 1] ELSE t.abData[i] IN
    IF t.fIncrAddr
    THEN [k \in { <<t.enmAddrSpace, t.uAddr + i - 1>> : i \in 1..t.cbXfer } |->
             D(k[2] - t.uAddr + 1)]
    ELSE [k \in { <<t.enmAddrSpace, t.uAddr + i - 1>> : i \in 1..MIN(t.cbStride, t.cbXfer) } |->
             D(t.cbXfer - MIN(t.cbStride, t.cbXfer) + (k[2] - t.uAddr) + 1)]

\* The requests that carry no data back.
StubNoDataReqs ==
    {PSPSERIALPDURRNID_REQUEST_CONNECT, PSPSERIALPDURRNID_REQUEST_EXEC_CODE_MOD,
     PSPSERIALPDURRNID_REQUEST_INPUT_BUF_WRITE}

StubMemAfter(req) ==
    IF req.enmRrnId \in StubNoDataReqs \/ StubXferOf(req).fRead
    THEN stub.mem
    ELSE StubWritten(StubXferOf(req)) @@ stub.mem

\* The stub's response to the request req; a connect restarts the stub's
\* PDU counter, so the connect response carries 1.
StubResponsePdu(req) ==
    IF req.enmRrnId = PSPSERIALPDURRNID_REQUEST_CONNECT
    THEN [cbPdu |-> 20, cPdus |-> 1, enmRrnId |-> PSPSERIALPDURRNID_RESPONSE_CONNECT,
          idCcd |-> 0, rcReq |-> 0,
          abPayload |-> U32ToBytes(U32Of(StubConnectResp.cbPduMax))
                            \o U32ToBytes(U32Of(StubConnectResp.cbScratch))
                            \o U32ToBytes(U32Of(StubConnectResp.PspAddrScratch))
                            \o U32ToBytes(U32Of(StubConnectResp.cSysSockets))
                            \o U32ToBytes(U32Of(StubConnectResp.cCcdsPerSocket))]
    ELSE IF req.enmRrnId = PSPSERIALPDURRNID_REQUEST_EXEC_CODE_MOD
    THEN [cbPdu |-> 0, cPdus |-> stub.cPdus + 1, enmRrnId |-> PSPSERIALPDURRNID_RESPONSE_EXEC_CODE_MOD,
          idCcd |-> req.idCcd, rcReq |-> 0, abPayload |-> << >>]
    ELSE IF req.enmRrnId = PSPSERIALPDURRNID_REQUEST_INPUT_BUF_WRITE
    THEN [cbPdu |-> 0, cPdus |-> stub.cPdus + 1, enmRrnId |-> PSPSERIALPDURRNID_RESPONSE_INPUT_BUF_WRITE,
          idCcd |-> req.idCcd, rcReq |-> 0, abPayload |-> << >>]
    ELSE LET t  == StubXferOf(req)
             ab == IF t.fRead THEN StubRead(t) ELSE << >>
         IN [cbPdu |-> Len(ab), cPdus |-> stub.cPdus + 1,
             enmRrnId |-> req.enmRrnId - PSPSERIALPDURRNID_REQUEST_FIRST
                              + PSPSERIALPDURRNID_RESPONSE_FIRST,
             idCcd |-> req.idCcd, rcReq |-> 0, abPayload |-> ab]

\* The stub answers the oldest request it has not answered yet.
StubRespond ==
    /\ hostOut # << >>
    /\ wire = << >>
    /\ LET rsp == StubResponsePdu(Head(hostOut)) IN
       /\ wire' = wire \o PduEncode(rsp)
       /\ stub' = [stub EXCEPT !.cPdus = rsp.cPdus,
                                !.mem = StubMemAfter(Head(hostOut)),
                                !.fCmRunning = \/ stub.fCmRunning
                                               \/ rsp.enmRrnId = PSPSERIALPDURRNID_RESPONSE_EXEC_CODE_MOD]
    /\ hostOut' = Tail(hostOut)
    /\ UNCHANGED <<pThis, op, opRet, ev, scratchVars, provVars>>

\* A PDU of the stub is lost on the way: the stub counted it, the host never
\* sees it.
StubLose ==
    /\ stub.cFaults < MaxStubFaults
    /\ wire = << >>
    /\ stub' = [stub EXCEPT !.cPdus = stub.cPdus + 1, !.cFaults = stub.cFaults + 1]
    /\ UNCHANGED <<pThis, wire, hostOut, op, opRet, ev, scratchVars, provVars>>

\* The stub restarts: its beacon counter starts over, the requests it held
\* are gone; its PDU counter starts over or not.
StubReset ==
    /\ stub.cFaults < MaxStubFaults
    /\ wire = << >>
    /\ \E fSeqRestart \in BOOLEAN :
          stub' = [stub EXCEPT !.cPdus = IF fSeqRestart THEN 0 ELSE stub.cPdus,
                               !.cBeaconsSent = 0,
                               !.fCmRunning = FALSE,
                               !.cFaults = stub.cFaults + 1]
    /\ hostOut' = << >>
    /\ UNCHANGED <<pThis, wire, op, opRet, ev, scratchVars, provVars>>

PduIdle ==
    /\ pThis = PduCtxCreated
    /\ wire = << >>
    /\ hostOut = << >>
    /\ stub = [cPdus |-> 0, cBeaconsSent |-> 0, cFaults |-> 0, fCmRunning |-> FALSE, cIrqNots |-> 0,
               mem |-> << >>]
    /\ op = NoOp
    /\ opRet = NoRet
    /\ ev = [what |-> "none", pdu |-> << >>, seqPrev |-> 0, cReqOpen |-> 0, fResetDetected |-> FALSE,
                              aLogMsgs |-> << >>, abLogRcvd |-> << >>, fLogDropped |-> FALSE]

\* Nothing allocated, the PDU context just created, nothing on the wire.
Init == ScratchInit /\ PduIdle /\ ProvIdle

PduNext ==
    \/ pspStubPduCtxConnect
    \/ \E uPspAddr \in ReadAddrs, cbRead \in ReadSizesReq : pspStubPduCtxPspMemRead(uPspAddr, cbRead)
    \/ RecvIter(FALSE)
    \/ RecvTimeout
    \/ StubBeacon
    \/ StubRespond
    \/ StubLose
    \/ StubReset

(***************************************************************************)
(* A connected host that waits for interrupts, runs a code module and      *)
(* reads PSP memory, against a stub that answers, raises interrupts and    *)
(* reports the end of the code module.                                     *)
(***************************************************************************)

MaxIrqNots == 1
WaitMs == {0, 1}
ExecMillies == {1, 2}
InAvail == {0, 1}

\* The lowest CCD with an interrupt notification not yet handed out.
IrqPending(p) == { i \in 0..(PSP_CCDS_MAX - 1) : p.afPerCcdIrqNotRcvd[i] }
C22_Mutant_IrqLowest(p) == CHOOSE i \in IrqPending(p) : \A j \in IrqPending(p) : i >= j
IrqLowest(p) == CHOOSE i \in IrqPending(p) : \A j \in IrqPending(p) : i <= j

\* pspStubPduCtxPspWaitForIrq up to its return or its pspStubPduCtxRecvId.
pspStubPduCtxPspWaitForIrq(cWaitMs) ==
    /\ op.pc = "idle"
    /\ pThis.fConnect
    /\ IF pThis.cCcdsIrqChange # 0 /\ IrqPending(pThis) # {}
       THEN LET i == IrqLowest(pThis) IN
            /\ pThis' = [pThis EXCEPT !.afPerCcdIrqNotRcvd[i] = FALSE,
                                      !.cCcdsIrqChange = pThis.cCcdsIrqChange - 1]
            /\ op' = NoOp
            /\ opRet' = [kind |-> "wfi", rc |-> STS_INF_SUCCESS,
                         abResp |-> <<i, (IF pThis.afPerCcdIrq[i] THEN 1 ELSE 0)
                                          + (IF pThis.afPerCcdFirq[i] THEN 2 ELSE 0)>>,
                         req |-> [cWaitMs |-> cWaitMs], pdu |-> << >>]
       ELSE IF cWaitMs # 0
       THEN /\ op' = [pc |-> "recv", kind |-> "wfi",
                      enmRrnId |-> PSPSERIALPDURRNID_NOTIFICATION_IRQ,
                      cbResp |-> 0, req |-> [cWaitMs |-> cWaitMs], cBeaconsSeen |-> 0]
            /\ opRet' = NoRet
            /\ UNCHANGED pThis
       ELSE /\ op' = NoOp
            /\ opRet' = [kind |-> "wfi", rc |-> STS_ERR_PSP_PROXY_WFI_NO_CHANGE, abResp |-> << >>,
                         req |-> [cWaitMs |-> cWaitMs], pdu |-> << >>]
            /\ UNCHANGED pThis
    /\ ev' = [ev EXCEPT !.what = "call", !.pdu = << >>]
    /\ UNCHANGED <<wire, hostOut, stub, scratchVars, provVars>>

\* pspStubPduCtxPspCodeModExec up to the pspStubPduCtxRecvId of its first
\* request; cbInAvail is what the host's input buffer holds.
pspStubPduCtxPspCodeModExec(idCcd, cMillies, cbInAvail) ==
    /\ op.pc = "idle"
    /\ pThis.fConnect
    /\ pThis.cPdusSent < MaxPdusSent
    /\ LET snd == pspStubPduCtxSend(pThis, idCcd, PSPSERIALPDURRNID_REQUEST_EXEC_CODE_MOD,
                                    Zeroes(cbExecCodeModReq))
       IN /\ pThis' = snd.p
          /\ hostOut' = Append(hostOut, snd.pdu)
    /\ op' = [pc |-> "recv", kind |-> "exec_req",
              enmRrnId |-> PSPSERIALPDURRNID_RESPONSE_EXEC_CODE_MOD,
              cbResp |-> 0,
              req |-> [idCcd |-> idCcd, cMillies |-> cMillies, cMsWaited |-> 0,
                       cbInAvail |-> cbInAvail],
              cBeaconsSeen |-> 0]
    /\ opRet' = NoRet
    /\ ev' = [ev EXCEPT !.what = "call", !.pdu = << >>]
    /\ UNCHANGED <<wire, stub, scratchVars, provVars>>

\* The stub reports a change of the interrupt lines of a CCD.
StubIrq(idCcd, fIrqCur) ==
    /\ stub.cIrqNots < MaxIrqNots
    /\ wire = << >>
    /\ wire' = PduEncode([cbPdu |-> cbIrqNot, cPdus |-> stub.cPdus + 1,
                          enmRrnId |-> PSPSERIALPDURRNID_NOTIFICATION_IRQ,
                          idCcd |-> idCcd, rcReq |-> 0,
                          abPayload |-> U32ToBytes(U32Of(fIrqCur))])
    /\ stub' = [stub EXCEPT !.cPdus = stub.cPdus + 1, !.cIrqNots = stub.cIrqNots + 1]
    /\ UNCHANGED <<pThis, hostOut, op, opRet, ev, scratchVars, provVars>>

\* The stub fails the oldest request it has not answered yet: the response
\* carries the status rcReq and no payload.
StubRespondError(rcReq) ==
    /\ hostOut # << >>
    /\ wire = << >>
    /\ stub.cFaults < MaxStubFaults
    /\ wire' = PduEncode([cbPdu |-> 0, cPdus |-> stub.cPdus + 1,
                          enmRrnId |-> Head(hostOut).enmRrnId - PSPSERIALPDURRNID_REQUEST_FIRST
                                           + PSPSERIALPDURRNID_RESPONSE_FIRST,
                          idCcd |-> Head(hostOut).idCcd, rcReq |-> rcReq, abPayload |-> << >>])
    /\ stub' = [stub EXCEPT !.cPdus = stub.cPdus + 1, !.cFaults = stub.cFaults + 1]
    /\ hostOut' = Tail(hostOut)
    /\ UNCHANGED <<pThis, op, opRet, ev, scratchVars, provVars>>

\* The status codes a failing request of this model carries.
StubErrors == {1, 2}

\* What the code module of this model returns.
u32CmRet == 7

\* The code module returns: the stub reports it.
StubExecFinished ==
    /\ stub.fCmRunning
    /\ wire = << >>
    /\ wire' = PduEncode([cbPdu |-> cbExecNot, cPdus |-> stub.cPdus + 1,
                          enmRrnId |-> PSPSERIALPDURRNID_NOTIFICATION_CODE_MOD_EXEC_FINISHED,
                          idCcd |-> 0, rcReq |-> 0,
                          abPayload |-> U32ToBytes(U32Of(u32CmRet))])
    /\ stub' = [stub EXCEPT !.cPdus = stub.cPdus + 1, !.fCmRunning = FALSE]
    /\ UNCHANGED <<pThis, hostOut, op, opRet, ev, scratchVars, provVars>>

\* The host is connected (on the stub's first beacon) and has registered
\* its I/O interface; the stub has sent the connect response.
OpsInit ==
    /\ ScratchInit
    /\ ProvIdle
    /\ pThis = [ConnectedCtx EXCEPT !.pProxyIoIf = TRUE]
    /\ wire = << >>
    /\ hostOut = << >>
    /\ stub = [cPdus |-> 1, cBeaconsSent |-> 1, cFaults |-> 0, fCmRunning |-> FALSE, cIrqNots |-> 0,
               mem |-> << >>]
    /\ op = NoOp
    /\ opRet = NoRet
    /\ ev = [what |-> "none", pdu |-> << >>, seqPrev |-> 1, cReqOpen |-> 0, fResetDetected |-> FALSE,
                              aLogMsgs |-> << >>, abLogRcvd |-> << >>, fLogDropped |-> FALSE]

OpsNext ==
    \/ \E cWaitMs \in WaitMs : pspStubPduCtxPspWaitForIrq(cWaitMs)
    \/ \E cMillies \in ExecMillies, cbInAvail \in InAvail : pspStubPduCtxPspCodeModExec(0, cMillies, cbInAvail)
    \/ \E cbRead \in ReadSizesReq : pspStubPduCtxPspMemRead(ScratchStart, cbRead)
    \/ RecvIter(FALSE)
    \/ RecvTimeout
    \/ StubRespond
    \/ \E rcReq \in StubErrors : StubRespondError(rcReq)
    \/ \E idCcd \in {0, 1}, fIrqCur \in {1, 2} : StubIrq(idCcd, fIrqCur)
    \/ StubExecFinished

(***************************************************************************)
(* A connected host that reads and writes the stub's address spaces with   *)
(* the transfer functions, under negotiated PDU sizes small enough for     *)
(* transfers to be split; the stub answers, or fails a request.            *)
(***************************************************************************)

\* The PDU sizes the stub of this model may have reported: 34 and 42 split
\* the memory and the x86 transfers at 2 bytes, 58 the generic transfer.
XferPduMax == {34, 42, 58, 256}
XferBase == ScratchStart
XferSizes == {1, 5}
\* The transfer of specification section 8, scenario 2: 1024 bytes from
\* 0x40000000.
XferBigBase == 1073741824
XferBigSize == 1024

\* The memory reads of this model: the big one under the PDU size of its
\* scenario.
XferReads ==
    { <<XferBase, cb>> : cb \in XferSizes }
        \cup (IF pThis.cbPduMax = 256 THEN { <<XferBigBase, XferBigSize>> } ELSE {})

\* The transfer functions of psp-stub-pdu.c up to the pspStubPduCtxRecvId of
\* their first request.
pspStubPduCtxPspMemWrite(uPspAddr, cbWrite) ==
    /\ op.pc = "idle"
    /\ pThis.fConnect
    /\ pThis.cPdusSent < MaxPdusSent
    /\ LET s == XferSend(pThis, XferReq("PspMemWrite", "mem",
                              PSPSERIALPDURRNID_REQUEST_PSP_MEM_WRITE,
                              PSPSERIALPDURRNID_RESPONSE_PSP_MEM_WRITE, cbMemXferReq,
                              FALSE, TRUE, uPspAddr, cbWrite, WriteData(cbWrite)))
       IN /\ pThis' = s.p
          /\ hostOut' = hostOut \o s.out
          /\ op' = s.op
    /\ opRet' = NoRet
    /\ ev' = [ev EXCEPT !.cReqOpen = ev.cReqOpen + 1]
    /\ UNCHANGED <<wire, stub, scratchVars, provVars>>

pspStubPduCtxPspSmnRead(uSmnAddr, cbVal) ==
    /\ op.pc = "idle"
    /\ pThis.fConnect
    /\ pThis.cPdusSent < MaxPdusSent
    /\ LET s == XferSend(pThis, XferReq("PspSmnRead", "mem",
                              PSPSERIALPDURRNID_REQUEST_PSP_SMN_READ,
                              PSPSERIALPDURRNID_RESPONSE_PSP_SMN_READ, cbMemXferReq,
                              TRUE, FALSE, uSmnAddr, cbVal, LocalBuf(cbVal)))
       IN /\ pThis' = s.p
          /\ hostOut' = hostOut \o s.out
          /\ op' = s.op
    /\ opRet' = NoRet
    /\ ev' = [ev EXCEPT !.cReqOpen = ev.cReqOpen + 1]
    /\ UNCHANGED <<wire, stub, scratchVars, provVars>>

pspStubPduCtxPspSmnWrite(uSmnAddr, cbVal) ==
    /\ op.pc = "idle"
    /\ pThis.fConnect
    /\ pThis.cPdusSent < MaxPdusSent
    /\ LET s == XferSend(pThis, XferReq("PspSmnWrite", "mem",
                              PSPSERIALPDURRNID_REQUEST_PSP_SMN_WRITE,
                              PSPSERIALPDURRNID_RESPONSE_PSP_SMN_WRITE, cbMemXferReq,
                              FALSE, TRUE, uSmnAddr, cbVal, WriteData(cbVal)))
       IN /\ pThis' = s.p
          /\ hostOut' = hostOut \o s.out
          /\ op' = s.op
    /\ opRet' = NoRet
    /\ ev' = [ev EXCEPT !.cReqOpen = ev.cReqOpen + 1]
    /\ UNCHANGED <<wire, stub, scratchVars, provVars>>

pspStubPduCtxPspX86MemRead(PhysX86Addr, cbRead) ==
    /\ op.pc = "idle"
    /\ pThis.fConnect
    /\ pThis.cPdusSent < MaxPdusSent
    /\ LET s == XferSend(pThis, XferReq("PspX86MemRead", "x86",
                              PSPSERIALPDURRNID_REQUEST_PSP_X86_MEM_READ,
                              PSPSERIALPDURRNID_RESPONSE_PSP_X86_MEM_READ, cbX86MemXferReq,
                              TRUE, FALSE, PhysX86Addr, cbRead, LocalBuf(cbRead)))
       IN /\ pThis' = s.p
          /\ hostOut' = hostOut \o s.out
          /\ op' = s.op
    /\ opRet' = NoRet
    /\ ev' = [ev EXCEPT !.cReqOpen = ev.cReqOpen + 1]
    /\ UNCHANGED <<wire, stub, scratchVars, provVars>>

pspStubPduCtxPspX86MemWrite(PhysX86Addr, cbWrite) ==
    /\ op.pc = "idle"
    /\ pThis.fConnect
    /\ pThis.cPdusSent < MaxPdusSent
    /\ LET s == XferSend(pThis, XferReq("PspX86MemWrite", "x86",
                              PSPSERIALPDURRNID_REQUEST_PSP_X86_MEM_WRITE,
                              PSPSERIALPDURRNID_RESPONSE_PSP_X86_MEM_WRITE, cbX86MemXferReq,
                              FALSE, TRUE, PhysX86Addr, cbWrite, WriteData(cbWrite)))
       IN /\ pThis' = s.p
          /\ hostOut' = hostOut \o s.out
          /\ op' = s.op
    /\ opRet' = NoRet
    /\ ev' = [ev EXCEPT !.cReqOpen = ev.cReqOpen + 1]
    /\ UNCHANGED <<wire, stub, scratchVars, provVars>>

\* The address spaces pspStubPduCtxPspAddrXfer knows.
AddrSpacesValid == {PSPADDRSPACE_PSP_MEM, PSPADDRSPACE_PSP_MEM + 1, PSPADDRSPACE_SMN,
                    PSPADDRSPACE_X86_MEM, PSPADDRSPACE_X86_MEM + 1}

\* pspStubPduCtxPspAddrXfer up to its return or the pspStubPduCtxRecvId of
\* its first request.  Every request goes through pspStubPduCtxReqRespWr:
\* it carries bytes of the local buffer and expects a response without
\* payload, whatever the flags.
pspStubPduCtxPspAddrXfer(enmAddrSpace, uAddr, fFlags, cbStride, cbXfer) ==
    /\ op.pc = "idle"
    /\ pThis.fConnect
    /\ pThis.cPdusSent < MaxPdusSent
    /\ LET fMemset == FlagSet(fFlags, PSP_SERIAL_DATA_XFER_F_MEMSET)
           cbData  == IF fMemset THEN cbStride ELSE cbXfer
           abLocal == IF FlagSet(fFlags, PSP_SERIAL_DATA_XFER_F_READ)
                      THEN LocalBuf(cbData) ELSE WriteData(cbData)
           x0 == XferReq("PspAddrXfer", "data", PSPSERIALPDURRNID_REQUEST_PSP_DATA_XFER,
                         PSPSERIALPDURRNID_RESPONSE_PSP_DATA_XFER, cbDataXferReq,
                         FALSE, TRUE, uAddr, cbXfer, abLocal)
           x  == [x0 EXCEPT !.enmAddrSpace = enmAddrSpace, !.cbStride = cbStride,
                            !.fFlags = fFlags, !.cbData = cbData,
                            !.fFast = XferFits(cbData, x0.cbMax),
                            !.fAdvLocal = ~ fMemset,
                            !.fIncrAddr = FlagSet(fFlags, PSP_SERIAL_DATA_XFER_F_INCR_ADDR)]
       IN IF enmAddrSpace \notin AddrSpacesValid
          THEN /\ op' = NoOp
               /\ opRet' = [kind |-> "xfer", rc |-> STS_ERR_GENERIC, abResp |-> abLocal,
                            req |-> x, pdu |-> << >>]
               /\ UNCHANGED <<pThis, hostOut, ev>>
          ELSE LET s == XferSend(pThis, x) IN
               /\ pThis' = s.p
               /\ hostOut' = hostOut \o s.out
               /\ op' = s.op
               /\ opRet' = NoRet
               /\ ev' = [ev EXCEPT !.cReqOpen = ev.cReqOpen + 1]
    /\ UNCHANGED <<wire, stub, scratchVars, provVars>>

\* The flags of the generic transfers of this model: a read, a write, both
\* moving the address, and a memset.
XferFlags ==
    {PSP_SERIAL_DATA_XFER_F_READ + PSP_SERIAL_DATA_XFER_F_INCR_ADDR,
     PSP_SERIAL_DATA_XFER_F_WRITE + PSP_SERIAL_DATA_XFER_F_INCR_ADDR,
     PSP_SERIAL_DATA_XFER_F_WRITE + PSP_SERIAL_DATA_XFER_F_MEMSET}

\* The generic transfers of this model as <<enmAddrSpace, fFlags, cbStride,
\* cbXfer>>: the ones above on PSP memory with a stride of 1 and 5 bytes, a
\* read of an address space that does not exist, and three the
\* documentation of PSPProxyCtxPspAddrXfer rules out: a read that is a write
\* as well, a stride of 3, and 5 bytes in strides of 2.
XferArgs ==
    { <<PSPADDRSPACE_PSP_MEM, fFlags, 1, 5>> : fFlags \in XferFlags }
        \cup { <<0, PSP_SERIAL_DATA_XFER_F_READ + PSP_SERIAL_DATA_XFER_F_INCR_ADDR, 1, 5>>,
               <<PSPADDRSPACE_PSP_MEM, PSP_SERIAL_DATA_XFER_F_READ + PSP_SERIAL_DATA_XFER_F_WRITE
                    + PSP_SERIAL_DATA_XFER_F_INCR_ADDR, 1, 5>>,
               <<PSPADDRSPACE_PSP_MEM,
                 PSP_SERIAL_DATA_XFER_F_WRITE + PSP_SERIAL_DATA_XFER_F_INCR_ADDR, 3, 6>>,
               <<PSPADDRSPACE_PSP_MEM,
                 PSP_SERIAL_DATA_XFER_F_WRITE + PSP_SERIAL_DATA_XFER_F_INCR_ADDR, 2, 5>> }

\* The host is connected; the stub reported one of the PDU sizes.
XferInit ==
    /\ ScratchInit
    /\ ProvIdle
    /\ \E cbPduMax \in XferPduMax : pThis = [ConnectedCtx EXCEPT !.cbPduMax = cbPduMax]
    /\ wire = << >>
    /\ hostOut = << >>
    /\ stub = [cPdus |-> 1, cBeaconsSent |-> 1, cFaults |-> 0, fCmRunning |-> FALSE, cIrqNots |-> 0,
               mem |-> << >>]
    /\ op = NoOp
    /\ opRet = NoRet
    /\ ev = [what |-> "none", pdu |-> << >>, seqPrev |-> 1, cReqOpen |-> 0, fResetDetected |-> FALSE,
                              aLogMsgs |-> << >>, abLogRcvd |-> << >>, fLogDropped |-> FALSE]

XferNext ==
    \/ \E t \in XferReads : pspStubPduCtxPspMemRead(t[1], t[2])
    \/ \E cb \in XferSizes : pspStubPduCtxPspMemWrite(XferBase, cb)
    \/ \E cb \in XferSizes : pspStubPduCtxPspSmnRead(XferBase, cb)
    \/ \E cb \in XferSizes : pspStubPduCtxPspSmnWrite(XferBase, cb)
    \/ \E cb \in XferSizes : pspStubPduCtxPspX86MemRead(XferBase, cb)
    \/ \E cb \in XferSizes : pspStubPduCtxPspX86MemWrite(XferBase, cb)
    \/ \E a \in XferArgs : pspStubPduCtxPspAddrXfer(a[1], XferBase, a[2], a[3], a[4])
    \/ RecvIter(FALSE)
    \/ RecvTimeout
    \/ StubRespond
    \/ \E rcReq \in StubErrors : StubRespondError(rcReq)

(***************************************************************************)
(* A connected host on a system of 32 CCDs that waits for interrupts       *)
(* while the stub reports interrupt changes, of CCDs behind the 16 the     *)
(* host keeps flags for as well, between the host's requests.              *)
(***************************************************************************)

MaxIrqChanges == 2

\* The CCDs the stub reports changes of, and the interrupt lines it reports.
IrqCcds == {0, 1, PSP_CCDS_MAX}
IrqFlags == {1, 2}

\* The stub reports a change of the interrupt lines of a CCD; it may do so
\* again before the host has asked for the change before.
StubIrqChange(idCcd, fIrqCur) ==
    /\ stub.cIrqNots < MaxIrqChanges
    /\ wire = << >>
    /\ LET not == [cbPdu |-> cbIrqNot, cPdus |-> stub.cPdus + 1,
                   enmRrnId |-> PSPSERIALPDURRNID_NOTIFICATION_IRQ,
                   idCcd |-> idCcd, rcReq |-> 0,
                   abPayload |-> U32ToBytes(U32Of(fIrqCur))]
       IN /\ wire' = PduEncode(not)
          /\ stub' = [stub EXCEPT !.cPdus = not.cPdus, !.cIrqNots = stub.cIrqNots + 1]
    /\ UNCHANGED <<pThis, hostOut, op, opRet, ev, scratchVars, provVars>>

\* The host is connected to a stub that reported 2 sockets of 16 CCDs.
IrqInit ==
    /\ ScratchInit
    /\ ProvIdle
    /\ pThis = [ConnectedCtx EXCEPT !.cSysSockets = 2, !.cCcdsPerSocket = PSP_CCDS_MAX,
                                    !.cCcds = 2 * PSP_CCDS_MAX]
    /\ wire = << >>
    /\ hostOut = << >>
    /\ stub = [cPdus |-> 1, cBeaconsSent |-> 1, cFaults |-> 0, fCmRunning |-> FALSE, cIrqNots |-> 0,
               mem |-> << >>]
    /\ op = NoOp
    /\ opRet = NoRet
    /\ ev = [what |-> "none", pdu |-> << >>, seqPrev |-> 1, cReqOpen |-> 0, fResetDetected |-> FALSE,
                              aLogMsgs |-> << >>, abLogRcvd |-> << >>, fLogDropped |-> FALSE]

IrqNext ==
    \/ \E cWaitMs \in WaitMs : pspStubPduCtxPspWaitForIrq(cWaitMs)
    \/ pspStubPduCtxPspMemRead(ScratchStart, 1)
    \/ pspStubPduCtxPspCodeModExec(0, 1, 0)
    \/ RecvIter(FALSE)
    \/ RecvTimeout
    \/ StubRespond
    \/ \E idCcd \in IrqCcds, fIrqCur \in IrqFlags : StubIrqChange(idCcd, fIrqCur)
    \/ StubExecFinished

(***************************************************************************)
(* A connected host with an I/O interface that waits for an interrupt      *)
(* while the stub sends log message notifications.                         *)
(***************************************************************************)

MaxLogMsgs == 3

\* The payloads of the stub's log messages: "hello ", "world\nmore",
\* " text\n", two empty lines, a line with a 0 byte in it, and 1018 bytes
\* without a newline, which one more payload of 6 bytes fills up to the
\* size of the buffer.
LogPayloads ==
    { <<104, 101, 108, 108, 111, 32>>,
      <<119, 111, 114, 108, 100, 10, 109, 111, 114, 101>>,
      <<32, 116, 101, 120, 116, 10>>,
      <<10, 10>>,
      <<97, 0, 98, 10>>,
      [i \in 1..(cbLogMsgBuf - 6) |-> 120] }

\* The stub sends a log message notification.
StubLogMsg(abMsg) ==
    /\ stub.cPdus < 1 + MaxLogMsgs
    /\ wire = << >>
    /\ wire' = PduEncode([cbPdu |-> Len(abMsg), cPdus |-> stub.cPdus + 1,
                          enmRrnId |-> PSPSERIALPDURRNID_NOTIFICATION_LOG_MSG,
                          idCcd |-> 0, rcReq |-> 0, abPayload |-> abMsg])
    /\ stub' = [stub EXCEPT !.cPdus = stub.cPdus + 1]
    /\ UNCHANGED <<pThis, hostOut, op, opRet, ev, scratchVars, provVars>>

\* The host is connected and has registered its I/O interface; the stub has
\* sent the connect response.
LogInit ==
    /\ ScratchInit
    /\ ProvIdle
    /\ pThis = [ConnectedCtx EXCEPT !.pProxyIoIf = TRUE]
    /\ wire = << >>
    /\ hostOut = << >>
    /\ stub = [cPdus |-> 1, cBeaconsSent |-> 1, cFaults |-> 0, fCmRunning |-> FALSE, cIrqNots |-> 0,
               mem |-> << >>]
    /\ op = NoOp
    /\ opRet = NoRet
    /\ ev = [what |-> "none", pdu |-> << >>, seqPrev |-> 1, cReqOpen |-> 0, fResetDetected |-> FALSE,
             aLogMsgs |-> << >>, abLogRcvd |-> << >>, fLogDropped |-> FALSE]

LogNext ==
    \/ pspStubPduCtxPspWaitForIrq(1)
    \/ RecvIter(FALSE)
    \/ RecvTimeout
    \/ \E abMsg \in LogPayloads : StubLogMsg(abMsg)

(***************************************************************************)
(* The providers' read under pspStubPduCtxRecv: a pspStubPduCtxRecvId on a  *)
(* context just created waits for a beacon, and recv(2) or read(2) behind  *)
(* the provider's read delivers all, some or none of the bytes asked for.  *)
(***************************************************************************)

MaxReadShort == 2
ReadKinds == {"tcp", "serial"}
\* What recv(2) / read(2) does with a request of cbRead bytes, as <<cbRet,
\* errno>>: all of the bytes, one byte less, the end of the stream, EAGAIN,
\* another error.
ReadResults == {"all", "short", "eof", "again", "error"}
ReadOutcome(res, cbRead) ==
    CASE res = "all"   -> <<cbRead, "none">>
      [] res = "short" -> <<cbRead - 1, "none">>
      [] res = "eof"   -> <<0, "none">>
      [] res = "again" -> <<-1, "EAGAIN">>
      [] OTHER         -> <<-1, "EIO">>

\* tcpProvPduIoIfRead: recv() returned cbRet with errno; pcbRead is what
\* *pcbRead holds at the call.  The status and *pcbRead behind the call.
tcpProvPduIoIfRead(cbRead, pcbRead, cbRet, errno) ==
    IF cbRet > 0
    THEN [rc |-> STS_INF_SUCCESS, pcbRead |-> cbRead]
    ELSE IF cbRet = 0
    THEN [rc |-> STS_ERR_GENERIC, pcbRead |-> pcbRead]
    ELSE IF errno = "EAGAIN"
    THEN [rc |-> STS_INF_SUCCESS, pcbRead |-> pcbRead]
    ELSE [rc |-> STS_ERR_GENERIC, pcbRead |-> pcbRead]

\* serialProvPduIoIfRead: the same behind serialProvCtxEnsureBlockingMode,
\* whose fcntl() worked (fMode) or not.
serialProvPduIoIfRead(cbRead, pcbRead, fMode, cbRet, errno) ==
    IF ~ fMode
    THEN [rc |-> STS_ERR_GENERIC, pcbRead |-> pcbRead]
    ELSE IF cbRet > 0
    THEN [rc |-> STS_INF_SUCCESS, pcbRead |-> cbRead]
    ELSE IF cbRet = 0
    THEN [rc |-> STS_ERR_GENERIC, pcbRead |-> pcbRead]
    ELSE IF errno = "EAGAIN"
    THEN [rc |-> STS_INF_SUCCESS, pcbRead |-> pcbRead]
    ELSE [rc |-> STS_ERR_GENERIC, pcbRead |-> pcbRead]

\* The bytes ab stored at offset off of the array buf (bytes behind the end
\* of buf are 0, as calloc left them).
BufStore(buf, off, ab) ==
    LET n == IF Len(buf) > off + Len(ab) THEN Len(buf) ELSE off + Len(ab) IN
    [i \in 1..n |-> IF i > off /\ i <= off + Len(ab) THEN ab[i - off]
                    ELSE IF i <= Len(buf) THEN buf[i] ELSE 0]

\* One pass of the loop of pspStubPduCtxRecv with cbAvail bytes reported by
\* the peek: cbAsked = MIN(cbAvail, cbPduRecvLeft) is the size asked for
\* and what *pcbRead holds at the call, rd is what the provider's read
\* returned, cbGot the number of bytes recv() / read() stored at
\* abPdu[offPduRecv].  On success the offset moves by *pcbRead; the bytes
\* between the ones stored and the new offset are what abPdu held before.
\* ab are the bytes the offset moves over, abPdu is the array.
RecvReadPass(cbAsked, rd, cbGot) ==
    LET abBuf == BufStore(prov.abPdu, pThis.offPduRecv, SubSeq(wire, 1, cbGot)) IN
    [ab   |-> SubSeq(BufStore(abBuf, pThis.offPduRecv + rd.pcbRead, << >>),
                     pThis.offPduRecv + 1, pThis.offPduRecv + rd.pcbRead),
     wire |-> SubSeq(wire, cbGot + 1, Len(wire)),
     prov |-> [kind |-> prov.kind, pc |-> "read", rc |-> rd.rc, cbRead |-> cbAsked,
               cbGot |-> cbGot, cbThisRecv |-> rd.pcbRead,
               cShort |-> prov.cShort + (IF cbGot < cbAsked THEN 1 ELSE 0),
               abPdu |-> abBuf]]

\* The peek reports one byte or all of the bytes on the wire.
ReadAvails == { 1, Len(wire) }

\* pspStubPduCtxRecv, one pass of its loop on the tcp provider.
RecvViaTcp(cbAvail, res) ==
    /\ op.pc = "recv"
    /\ prov.kind = "tcp"
    /\ wire # << >>
    /\ res = "all" \/ prov.cShort < MaxReadShort
    /\ res = "short" => MIN(cbAvail, pThis.cbPduRecvLeft) > 1
    /\ \E cbThisRecv \in { MIN(cbAvail, pThis.cbPduRecvLeft) } :
       \E out \in { ReadOutcome(res, cbThisRecv) } :
       \E rd \in { tcpProvPduIoIfRead(cbThisRecv, cbThisRecv, out[1], out[2]) } :
       \E s \in { RecvReadPass(cbThisRecv, rd, IF out[1] > 0 THEN out[1] ELSE 0) } :
       \E r \in { IF rd.rc # STS_INF_SUCCESS
                   THEN OpContinue(pThis, op, rd.rc, << >>) @@ [what |-> "read_failed"]
                   ELSE RecvIdPass(pThis, op, s.ab) } :
          /\ pThis' = r.p
          /\ op' = r.op
          /\ opRet' = r.ret
          /\ hostOut' = hostOut \o r.out
          /\ ev' = EvAfter(r, RecvPass(pThis, s.ab).pdu)
          /\ wire' = s.wire
          /\ prov' = [s.prov EXCEPT !.abPdu = BufStore(@, 0, r.p.abPdu)]
    /\ UNCHANGED <<stub, scratchVars>>

\* pspStubPduCtxRecv, one pass of its loop on the serial provider.
RecvViaSerial(cbAvail, fMode, res) ==
    /\ op.pc = "recv"
    /\ prov.kind = "serial"
    /\ wire # << >>
    /\ (fMode /\ res = "all") \/ prov.cShort < MaxReadShort
    /\ res = "short" => MIN(cbAvail, pThis.cbPduRecvLeft) > 1
    /\ \E cbThisRecv \in { MIN(cbAvail, pThis.cbPduRecvLeft) } :
       \E out \in { ReadOutcome(res, cbThisRecv) } :
       \E rd \in { serialProvPduIoIfRead(cbThisRecv, cbThisRecv, fMode, out[1], out[2]) } :
       \E s \in { RecvReadPass(cbThisRecv, rd, IF fMode /\ out[1] > 0 THEN out[1] ELSE 0) } :
       \E r \in { IF rd.rc # STS_INF_SUCCESS
                   THEN OpContinue(pThis, op, rd.rc, << >>) @@ [what |-> "read_failed"]
                   ELSE RecvIdPass(pThis, op, s.ab) } :
          /\ pThis' = r.p
          /\ op' = r.op
          /\ opRet' = r.ret
          /\ hostOut' = hostOut \o r.out
          /\ ev' = EvAfter(r, RecvPass(pThis, s.ab).pdu)
          /\ wire' = s.wire
          /\ prov' = [s.prov EXCEPT !.abPdu = BufStore(@, 0, r.p.abPdu)]
    /\ UNCHANGED <<stub, scratchVars>>

\* A context just created waits for the beacon the stub has sent, behind
\* nothing or one byte of junk.
ReadInit ==
    /\ ScratchInit
    /\ \E kind \in ReadKinds, junk \in { << >>, <<255>> } :
          /\ prov = [kind |-> kind, pc |-> "idle", rc |-> STS_INF_SUCCESS, cbRead |-> 0,
                     cbGot |-> 0, cbThisRecv |-> 0, cShort |-> 0, abPdu |-> << >>]
          /\ wire = junk \o PduEncode(StubBeaconPdu(1, 1))
          /\ stub = [junk |-> junk, defect |-> "none", sent |-> <<StubBeaconPdu(1, 1)>>]
    /\ pThis = PduCtxCreated
    /\ op = [pc |-> "recv", kind |-> "recvid", enmRrnId |-> PSPSERIALPDURRNID_NOTIFICATION_BEACON,
             cbResp |-> 0, req |-> << >>, cBeaconsSeen |-> 0]
    /\ ev = [what |-> "none", pdu |-> << >>, seqPrev |-> 0, cReqOpen |-> 0, fResetDetected |-> FALSE,
             aLogMsgs |-> << >>, abLogRcvd |-> << >>, fLogDropped |-> FALSE]
    /\ hostOut = << >>
    /\ opRet = NoRet

ReadNext ==
    \/ \E cbAvail \in ReadAvails, res \in ReadResults : RecvViaTcp(cbAvail, res)
    \/ \E cbAvail \in ReadAvails, fMode \in BOOLEAN, res \in ReadResults :
          RecvViaSerial(cbAvail, fMode, res)

(***************************************************************************)
(* A PDU damaged on the wire in front of the stub's next PDU: the          *)
(* pspStubPduCtxRecvId that fails on the damaged PDU is followed by        *)
(* another one for the same RRN-ID.                                        *)
(***************************************************************************)

MaxRecvCalls == 2
RetryDefects == {"chksum", "endmagic"}

\* The PDU the stub sends with header sequence number cPdus: a memory read
\* response or a notification that the code module has finished, with the
\* payload ab.
RetryPdu(cPdus, id, ab) ==
    [cbPdu |-> Len(ab), cPdus |-> cPdus, enmRrnId |-> id, idCcd |-> 0, rcReq |-> 0,
     abPayload |-> ab]

RetryInit ==
    /\ ScratchInit
    /\ ProvIdle
    /\ \E p \in { PduCtxCreated, ConnectedCtx }, df \in RetryDefects,
          id \in { PSPSERIALPDURRNID_RESPONSE_PSP_MEM_READ,
                   PSPSERIALPDURRNID_NOTIFICATION_CODE_MOD_EXEC_FINISHED },
          ab \in { << >>, <<1, 2, 3, 4>> } :
          /\ pThis = p
          /\ wire = DefectBytes(p, RetryPdu(p.cPduRecvNext + 1, id, ab), df)
                        \o PduEncode(RetryPdu(p.cPduRecvNext + 2,
                                              PSPSERIALPDURRNID_RESPONSE_PSP_MEM_READ, <<7>>))
          /\ stub = [junk |-> << >>, defect |-> df, cCalls |-> 1,
                     sent |-> << RetryPdu(p.cPduRecvNext + 1, id, ab),
                                 RetryPdu(p.cPduRecvNext + 2,
                                          PSPSERIALPDURRNID_RESPONSE_PSP_MEM_READ, <<7>>) >>]
          /\ ev = [what |-> "none", pdu |-> << >>, seqPrev |-> p.cPduRecvNext, cReqOpen |-> 0,
                   fResetDetected |-> FALSE,
                   aLogMsgs |-> << >>, abLogRcvd |-> << >>, fLogDropped |-> FALSE]
    /\ op = [pc |-> "recv", kind |-> "recvid",
             enmRrnId |-> PSPSERIALPDURRNID_RESPONSE_PSP_MEM_READ,
             cbResp |-> 0, req |-> << >>, cBeaconsSeen |-> 0]
    /\ hostOut = << >>
    /\ opRet = NoRet

\* The caller, whose receive has returned, calls pspStubPduCtxRecvId for
\* the memory read response again.
RecvIdAgain ==
    /\ op.pc = "idle"
    /\ stub.cCalls < MaxRecvCalls
    /\ stub' = [stub EXCEPT !.cCalls = stub.cCalls + 1]
    /\ op' = [pc |-> "recv", kind |-> "recvid",
              enmRrnId |-> PSPSERIALPDURRNID_RESPONSE_PSP_MEM_READ,
              cbResp |-> 0, req |-> << >>, cBeaconsSeen |-> 0]
    /\ UNCHANGED <<pThis, wire, hostOut, opRet, ev, scratchVars, provVars>>

RetryNext ==
    \/ RecvIter(TRUE)
    \/ RecvTimeout
    \/ RecvIdAgain

(***************************************************************************)
(* The handshake and the reads behind it against a stub that never         *)
(* restarts and loses nothing: its beacons carry consecutive counters.     *)
(***************************************************************************)

MaxSteadyBeacons == 3

\* The stub emits its periodic beacon; none is lost, the counter never
\* starts over.
StubBeaconSteady ==
    /\ stub.cBeaconsSent < MaxSteadyBeacons
    /\ wire = << >>
    /\ wire' = wire \o PduEncode(StubBeaconPdu(stub.cPdus + 1, stub.cBeaconsSent + 1))
    /\ stub' = [stub EXCEPT !.cPdus = stub.cPdus + 1, !.cBeaconsSent = stub.cBeaconsSent + 1]
    /\ UNCHANGED <<pThis, hostOut, op, opRet, ev, scratchVars, provVars>>

SteadyNext ==
    \/ pspStubPduCtxConnect
    \/ \E uPspAddr \in ReadAddrs, cbRead \in ReadSizesReq : pspStubPduCtxPspMemRead(uPspAddr, cbRead)
    \/ RecvIter(FALSE)
    \/ RecvTimeout
    \/ StubBeaconSteady
    \/ StubRespond

(***************************************************************************)
(* The host-to-PSP ring of the SPI flash provider: the host produces with  *)
(* em100TcpSpiMsgBufferWrite, the PSP consumes at the tail.  The ring      *)
(* lives in prov: the two offsets and the data area as the flash holds     *)
(* them, the bytes of the running write, and the bytes written and         *)
(* consumed so far.                                                        *)
(***************************************************************************)

cbRingBuf == 4
MaxRingWrites == 3

em100TcpSpiMsgBufferGetFree(r) ==
    IF r.offHead >= r.offTail
    THEN cbRingBuf - (r.offHead - r.offTail)
    ELSE r.offTail - r.offHead

em100TcpSpiMsgBufferGetUsed(r) == cbRingBuf - em100TcpSpiMsgBufferGetFree(r)

em100TcpSpiMsgBufferGetWrite(r) == MIN(em100TcpSpiMsgBufferGetFree(r), cbRingBuf - r.offHead)

em100TcpSpiMsgBufferGetRead(r) == MIN(em100TcpSpiMsgBufferGetUsed(r), cbRingBuf - r.offTail)

em100TcpSpiMsgBufferWriteAdv(r, cbWrite) == (r.offHead + cbWrite) % cbRingBuf

em100TcpSpiMsgBufferReadAdv(r, cbRead) == (r.offTail + cbRead) % cbRingBuf

RingInit ==
    /\ ScratchInit
    /\ PduIdle
    /\ prov = [kind |-> "em100", pc |-> "idle", offHead |-> 0, offTail |-> 0,
               abRing |-> [i \in 1..cbRingBuf |-> 0], abLeft |-> << >>,
               abAccepted |-> << >>, abConsumed |-> << >>, cWrites |-> 0]

\* em100TcpProvPduIoIfWrite is called with cbPkt bytes; the bytes are
\* numbered in the order in which the host hands them over.
em100TcpProvPduIoIfWrite(cbPkt) ==
    /\ prov.pc = "idle"
    /\ prov.cWrites < MaxRingWrites
    /\ prov' = [prov EXCEPT !.pc = "write", !.cWrites = prov.cWrites + 1,
                            !.abLeft = [i \in 1..cbPkt |-> Len(prov.abAccepted) + i]]
    /\ UNCHANGED <<pThis, wire, hostOut, stub, op, opRet, ev, scratchVars>>

\* One pass of the loop of em100TcpSpiMsgBufferWrite: the header is
\* fetched, as many bytes as em100TcpSpiMsgBufferGetWrite allows are
\* written at offHead, offHead is advanced and written back.  A pass that
\* can write nothing changes nothing.
em100TcpSpiMsgBufferWrite ==
    /\ prov.pc = "write"
    /\ \E cbThisWrite \in { MIN(Len(prov.abLeft), em100TcpSpiMsgBufferGetWrite(prov)) } :
          /\ cbThisWrite > 0
          /\ prov' = [prov EXCEPT
                 !.abRing = [i \in 1..cbRingBuf |->
                                IF i > prov.offHead /\ i <= prov.offHead + cbThisWrite
                                THEN prov.abLeft[i - prov.offHead] ELSE prov.abRing[i]],
                 !.offHead = em100TcpSpiMsgBufferWriteAdv(prov, cbThisWrite),
                 !.abAccepted = prov.abAccepted \o SubSeq(prov.abLeft, 1, cbThisWrite),
                 !.abLeft = SubSeq(prov.abLeft, cbThisWrite + 1, Len(prov.abLeft)),
                 !.pc = IF cbThisWrite = Len(prov.abLeft) THEN "idle" ELSE "write"]
    /\ UNCHANGED <<pThis, wire, hostOut, stub, op, opRet, ev, scratchVars>>

\* The PSP consumes cbRead of the bytes it finds between offTail and
\* offHead, and advances offTail.
PspRingConsume(cbRead) ==
    /\ cbRead <= em100TcpSpiMsgBufferGetRead(prov)
    /\ prov' = [prov EXCEPT
           !.abConsumed = prov.abConsumed
                              \o SubSeq(prov.abRing, prov.offTail + 1, prov.offTail + cbRead),
           !.offTail = em100TcpSpiMsgBufferReadAdv(prov, cbRead)]
    /\ UNCHANGED <<pThis, wire, hostOut, stub, op, opRet, ev, scratchVars>>

RingNext ==
    \/ \E cbPkt \in 1..cbRingBuf : em100TcpProvPduIoIfWrite(cbPkt)
    \/ em100TcpSpiMsgBufferWrite
    \/ \E cbRead \in 1..cbRingBuf : PspRingConsume(cbRead)

(***************************************************************************)
(* A connected host with its I/O interface registered that waits for an    *)
(* interrupt while the stub sends output buffer notifications, with as     *)
(* many payload bytes as the stub pleases.                                 *)
(***************************************************************************)

MaxOutBufNots == 3

\* sizeof(PSPSERIALOUTBUFNOT): idOutBuf and u32Pad0.
cbOutBufNot == 8

\* pspStubPduCtxOutBufWriteHandle: what it passes to pfnOutBufWrite.  cbData
\* is of type size_t: a value below zero stands for the value it wraps to,
\* 2^64 + cbData.
pspStubPduCtxOutBufWriteHandle(pdu) ==
    [idOutBuf |-> U32FromBytes(SubSeq(pdu, cbPduHdr + 1, cbPduHdr + 4)),
     cbData   |-> PduHdrFields(pdu).cbPdu.lo - cbOutBufNot]

\* The payloads of the notifications: none, the buffer id only, the fixed
\* fields only, the fixed fields and data.
OutBufPayloads ==
    { << >>, <<1, 0, 0, 0>>, <<1, 0, 0, 0, 0, 0, 0, 0>>,
      <<1, 0, 0, 0, 0, 0, 0, 0, 111, 117, 116, 10>> }

\* The stub sends an output buffer notification.
StubOutBufWrite(abNot) ==
    /\ stub.cPdus < 1 + MaxOutBufNots
    /\ wire = << >>
    /\ wire' = PduEncode([cbPdu |-> Len(abNot), cPdus |-> stub.cPdus + 1,
                          enmRrnId |-> PSPSERIALPDURRNID_NOTIFICATION_OUT_BUF,
                          idCcd |-> 0, rcReq |-> 0, abPayload |-> abNot])
    /\ stub' = [stub EXCEPT !.cPdus = stub.cPdus + 1]
    /\ UNCHANGED <<pThis, hostOut, op, opRet, ev, scratchVars, provVars>>

OutBufNext ==
    \/ pspStubPduCtxPspWaitForIrq(1)
    \/ RecvIter(TRUE)
    \/ RecvTimeout
    \/ \E abNot \in OutBufPayloads : StubOutBufWrite(abNot)

(***************************************************************************)
(* PDUs at the limit of the receive buffer: a pspStubPduCtxRecvId waits    *)
(* for a memory read response while the wire holds a response with the     *)
(* longest payload the header validation lets pass, one whose pad reaches  *)
(* that length, or a header that announces more, behind which a beacon     *)
(* follows.  The provider's peek reports one byte, a block or all of them. *)
(***************************************************************************)

BigAvails == {1, 1024, cbPduBuf}
BigPayloads == {cbPduRecvMax - 7, cbPduRecvMax}

\* The bytes on the wire: a whole response with cb payload bytes, or the
\* header of a response of cbPduRecvMax + 16 bytes with four bytes and a
\* beacon behind it.
BigWires(p) ==
    { PduEncode([cbPdu |-> cb, cPdus |-> p.cPduRecvNext + 1,
                 enmRrnId |-> PSPSERIALPDURRNID_RESPONSE_PSP_MEM_READ, idCcd |-> 0, rcReq |-> 0,
                 abPayload |-> [i \in 1..cb |-> 1]]) : cb \in BigPayloads }
    \cup
    { PduEncode([cbPdu |-> cbPduRecvMax + 16, cPdus |-> p.cPduRecvNext + 1,
                 enmRrnId |-> PSPSERIALPDURRNID_RESPONSE_PSP_MEM_READ, idCcd |-> 0, rcReq |-> 0,
                 abPayload |-> <<1, 2, 3, 4>>])
          \o PduEncode(StubBeaconPdu(p.cPduRecvNext + 1, p.cBeaconsSeen + 1)) }

BigInit ==
    /\ ScratchInit
    /\ ProvIdle
    /\ pThis \in { PduCtxCreated, ConnectedCtx }
    /\ wire \in BigWires(pThis)
    /\ stub = [junk |-> << >>, defect |-> "none", cCalls |-> 1, sent |-> << >>]
    /\ ev = [what |-> "none", pdu |-> << >>, seqPrev |-> pThis.cPduRecvNext, cReqOpen |-> 0,
             fResetDetected |-> FALSE,
             aLogMsgs |-> << >>, abLogRcvd |-> << >>, fLogDropped |-> FALSE]
    /\ op = [pc |-> "recv", kind |-> "recvid",
             enmRrnId |-> PSPSERIALPDURRNID_RESPONSE_PSP_MEM_READ,
             cbResp |-> 0, req |-> << >>, cBeaconsSeen |-> 0]
    /\ hostOut = << >>
    /\ opRet = NoRet

\* pspStubPduCtxRecv, one pass of its loop when the provider's peek
\* reports cbAvail bytes: MIN(cbAvail, cbPduRecvLeft) bytes are read.
RecvIterAvail(cbAvail) ==
    /\ op.pc = "recv"
    /\ wire # << >>
    /\ \E cbThisRecv \in { MIN(MIN(cbAvail, Len(wire)), pThis.cbPduRecvLeft) } :
       \E ab \in { SubSeq(wire, 1, cbThisRecv) } :
       \E r \in { RecvIdPass(pThis, op, ab) } :
          /\ pThis' = r.p
          /\ op' = r.op
          /\ opRet' = r.ret
          /\ hostOut' = hostOut \o r.out
          /\ ev' = EvAfter(r, RecvPass(pThis, ab).pdu)
          /\ wire' = SubSeq(wire, cbThisRecv + 1, Len(wire))
    /\ UNCHANGED <<stub, scratchVars, provVars>>

BigNext ==
    \/ \E cbAvail \in BigAvails : RecvIterAvail(cbAvail)
    \/ RecvTimeout

(***************************************************************************)
(* Specifications.                                                         *)
(***************************************************************************)

SpecScratch == Init /\ [][ScratchNext]_vars

SpecPdu == Init /\ [][PduNext]_vars

SpecProv == Init /\ [][ProvNext]_vars

SpecOps == OpsInit /\ [][OpsNext]_vars

SpecXfer == XferInit /\ [][XferNext]_vars

SpecIrq == IrqInit /\ [][IrqNext]_vars

SpecLog == LogInit /\ [][LogNext]_vars

\* Nothing allocated, the PDU context just created, no provider initialised.
ProvInitInit == ScratchInit /\ PduIdle /\ ProvInitIdle

SpecProvInit == ProvInitInit /\ [][ProvInitNext]_vars

SpecRead == ReadInit /\ [][ReadNext]_vars

SpecRetry == RetryInit /\ [][RetryNext]_vars

SpecSteady == Init /\ [][SteadyNext]_vars

SpecRing == RingInit /\ [][RingNext]_vars

SpecOutBuf == LogInit /\ [][OutBufNext]_vars

SpecBig == BigInit /\ [][BigNext]_vars


(***************************************************************************)
(* Claims about the scratch space manager.                                 *)
(***************************************************************************)

ScratchListSorted ==
    \A i \in 1..(Len(pScratchFreeHead) - 1) :
        pScratchFreeHead[i].PspAddrStart < pScratchFreeHead[i + 1].PspAddrStart

ScratchListDisjoint ==
    \A i, j \in 1..Len(pScratchFreeHead) :
        i # j => \/ ChunkEnd(pScratchFreeHead[i]) <= pScratchFreeHead[j].PspAddrStart
                 \/ ChunkEnd(pScratchFreeHead[j]) <= pScratchFreeHead[i].PspAddrStart

ScratchListCoalesced ==
    \A i \in 1..(Len(pScratchFreeHead) - 1) :
        ChunkEnd(pScratchFreeHead[i]) # pScratchFreeHead[i + 1].PspAddrStart

\* C1: after every alloc and every free of a block alloc returned, the free
\* list is sorted by ascending start address, its chunks do not overlap, and
\* no chunk ends where the next one starts.
C1_FreeListSortedDisjointCoalesced ==
    ScratchListSorted /\ ScratchListDisjoint /\ ScratchListCoalesced

\* C2: once every allocated block has been freed again, the free list is the
\* single chunk covering the region the manager started with.
C2_AllFreedRestoresRegion ==
    (fScratchSpaceMgrInit /\ scratchLive = {})
        => pScratchFreeHead = ScratchSpaceMgrInitList

\* C3: every address a successful alloc returns lies inside the scratch
\* region: region start <= address and address + size <= region end.
C3_AllocInsideRegion ==
    (scratchRet.op = "alloc" /\ scratchRet.rc = 0)
        => /\ ScratchStart <= scratchRet.addr
           /\ scratchRet.addr + scratchRet.cb <= ScratchStart + ScratchSize

(***************************************************************************)
(* Claims about the receive state machine.                                 *)
(***************************************************************************)

\* The pending pspStubPduCtxRecvId has returned the stub's PDU d, unchanged.
RecvReturned(d) ==
    /\ op.pc = "idle"
    /\ opRet.rc = STS_INF_SUCCESS
    /\ opRet.pdu = PduEncode(d)
    /\ ev.what = "pdu_returned"
    /\ ev.pdu = PduEncode(d)

\* The header fields and the payload read from the PDU ab are those of d.
SamePdu(ab, d) ==
    /\ PduHdrFields(ab).u32Magic = PSP_SERIAL_PSP_2_EXT_PDU_START_MAGIC
    /\ PduHdrFields(ab).cbPdu = U32Of(d.cbPdu)
    /\ PduHdrFields(ab).cPdus = U32Of(d.cPdus)
    /\ PduHdrFields(ab).enmRrnId = d.enmRrnId
    /\ PduHdrFields(ab).idCcd = d.idCcd
    /\ PduHdrFields(ab).rcReq = d.rcReq
    /\ PduPayload(ab) = d.abPayload

\* The start magic does not begin inside the junk.
MagicFree(junk) ==
    \A i \in 1..Len(junk) :
        SubSeq(junk \o PSP_SERIAL_PSP_2_EXT_PDU_START_MAGIC, i, i + 3)
            # PSP_SERIAL_PSP_2_EXT_PDU_START_MAGIC

\* C5: while connected, a PDU whose header sequence number is not the
\* expected next value ends the operation in progress with an error; it is
\* not skipped while the operation keeps waiting.
C5_GapIsFatal ==
    ev.what = "hdr_bad_cPdus" => (op.pc = "idle" /\ opRet.rc # STS_INF_SUCCESS)

\* C6 as stated: whatever junk precedes a well-formed PDU, the receive
\* returns that PDU unchanged once the wire is read, and returns no error.
C6_AnyJunkStillDelivers ==
    stub.defect = "none"
        => /\ op.pc = "idle" => RecvReturned(stub.sent[1])
           /\ wire = << >> => op.pc = "idle"

\* C6 amended: junk in which the start magic does not occur, in front of a
\* well-formed PDU: the receive returns that PDU unchanged once the wire is
\* read, and returns no error.
C6_MagicFreeJunkStillDelivers ==
    (stub.defect = "none" /\ MagicFree(stub.junk))
        => /\ op.pc = "idle" => RecvReturned(stub.sent[1])
           /\ wire = << >> => op.pc = "idle"

C6_Witness ==
    /\ stub.defect = "none"
    /\ Len(stub.junk) >= 3
    /\ stub.junk[Len(stub.junk)] = PSP_SERIAL_PSP_2_EXT_PDU_START_MAGIC[1]
    /\ MagicFree(stub.junk)
    /\ RecvReturned(stub.sent[1])

\* C7: a PDU that fails validation (header field out of range, checksum
\* mismatch, wrong end magic) is discarded and the pending receive keeps
\* waiting; it does not return.
C7_ValidationFailureKeepsWaiting ==
    ev.what \in {"hdr_bad", "footer_bad"} => op.pc = "recv"

\* C8: a well-formed PDU, encoded and read from the wire under any
\* fragmentation, is handed out exactly once, when its last byte is read,
\* with the header fields, RRN-ID and payload it was encoded from.
C8_EncodeRecvRoundTrip ==
    (stub.defect = "none" /\ stub.junk = << >>)
        => /\ wire # << >> => (op.pc = "recv" /\ ev.pdu = << >>)
           /\ wire = << >> => (RecvReturned(stub.sent[1]) /\ SamePdu(ev.pdu, stub.sent[1]))

C8_Witness ==
    /\ stub.defect = "none"
    /\ stub.junk = << >>
    /\ pThis.fConnect
    /\ wire = << >>
    /\ Len(stub.sent[1].abPayload) = 9
    /\ stub.sent[1].idCcd = 1
    /\ RecvReturned(stub.sent[1])
    /\ SamePdu(ev.pdu, stub.sent[1])


(***************************************************************************)
(* Claims about the connected engine.                                      *)
(***************************************************************************)

\* The step hands out a PDU: the host read bytes and pspStubPduCtxRecv
\* returned a complete PDU.
PduHandedOut == Len(wire') < Len(wire) /\ ev'.pdu # << >>

BeaconCounter(pdu) == U32Num(U32FromBytes(SubSeq(pdu, cbPduHdr + 1, cbPduHdr + 4)))

\* C4: every PDU the receive state machine hands out while the context is
\* connected carries the header sequence number of the PDU handed out
\* before plus one; the first one after connect carries the value the
\* counter was set to at connect plus one.
C4_InboundSeqPlusOne ==
    [][ (PduHandedOut /\ pThis.fConnect)
            => U32Num(PduHdrFields(ev'.pdu).cPdus) = ev.seqPrev + 1 ]_vars

C4_Witness ==
    /\ pThis.fConnect
    /\ ev.pdu # << >>
    /\ ev.what \in {"pdu_returned", "pdu_handled"}
    /\ ev.seqPrev = 3
    /\ PduHdrFields(ev.pdu).cPdus = U32Of(3)
    /\ pThis.cPduRecvNext = 3

\* C9 as stated: a read that returns success returns the stub's reply to
\* that very read (the memory at the address it asked for), and no second
\* request is sent while one is unanswered.
C9_ResponseBelongsToRequest ==
    /\ (opRet.kind = "reqresp" /\ opRet.rc = STS_INF_SUCCESS)
           => opRet.abResp = StubMem(opRet.req.uPspAddr, opRet.req.cbRead)
    /\ Len(hostOut) <= 1

\* C9 amended: a read that returns success returns a PDU with the paired
\* response RRN-ID, the requested size and the expected sequence number;
\* if every earlier request had got its response when the read was sent,
\* it is the stub's reply to that very read.
C9_ResponseBelongsToRequestIfNoneOpen ==
    (opRet.kind = "reqresp" /\ opRet.rc = STS_INF_SUCCESS)
        => /\ PduHdrFields(opRet.pdu).enmRrnId = PSPSERIALPDURRNID_RESPONSE_PSP_MEM_READ
           /\ PduHdrFields(opRet.pdu).cbPdu = U32Of(opRet.req.cbRead)
           /\ (op.pc = "idle" /\ ev.what = "pdu_returned")
                  => PduHdrFields(opRet.pdu).cPdus = U32Of(pThis.cPduRecvNext)
           /\ ~ opRet.req.fOthersPending
                  => opRet.abResp = StubMem(opRet.req.uPspAddr, opRet.req.cbRead)

C9_Witness ==
    /\ opRet.kind = "reqresp"
    /\ opRet.rc = STS_INF_SUCCESS
    /\ ~ opRet.req.fOthersPending
    /\ pThis.cPdusSent = 3
    /\ opRet.abResp = StubMem(opRet.req.uPspAddr, opRet.req.cbRead)

\* C10: when pspStubPduCtxRecvId gets a beacon it is not waiting for: while
\* connected, a counter other than cBeaconsSeen + 1 ends the pending
\* receive with an error; a counter of cBeaconsSeen + 1 increments
\* cBeaconsSeen and the receive goes on waiting; while not connected the
\* receive goes on waiting.  A beacon the connect waits for does not fail it.
C10_BeaconDispatch ==
    [][ (PduHandedOut /\ PduHdrFields(ev'.pdu).enmRrnId = PSPSERIALPDURRNID_NOTIFICATION_BEACON)
            => IF op.enmRrnId = PSPSERIALPDURRNID_NOTIFICATION_BEACON
               THEN ~ (op'.pc = "idle" /\ opRet'.rc # STS_INF_SUCCESS)
               ELSE IF ~ pThis.fConnect
               THEN op' = op /\ opRet' = opRet
               ELSE IF BeaconCounter(ev'.pdu) = pThis.cBeaconsSeen + 1
               THEN /\ op' = op /\ opRet' = opRet
                    /\ pThis'.cBeaconsSeen = pThis.cBeaconsSeen + 1
               ELSE /\ op'.pc = "idle"
                    /\ opRet'.rc = STS_ERR_GENERIC
                    /\ pThis'.cBeaconsSeen = pThis.cBeaconsSeen ]_vars

C10_Witness ==
    /\ pThis.fConnect
    /\ ev.what = "pdu_rejected"
    /\ PduHdrFields(ev.pdu).enmRrnId = PSPSERIALPDURRNID_NOTIFICATION_BEACON
    /\ BeaconCounter(ev.pdu) = 1
    /\ pThis.cBeaconsSeen >= 1
    /\ op.pc = "idle"
    /\ opRet.rc = STS_ERR_GENERIC


\* C11: once a receive has failed on a beacon with a non-consecutive counter
\* while connected, no later operation on the context returns success.
C11_ResetDetectedIsFatal ==
    ev.fResetDetected => ~ (op.pc = "idle" /\ opRet.kind # "none" /\ opRet.rc = STS_INF_SUCCESS)


\* The values a connect negotiates.
NegotiatedParams(p) ==
    <<p.fConnect, p.cbPduMax, p.cbScratch, p.PspAddrScratch, p.cSysSockets, p.cCcdsPerSocket, p.cCcds>>

\* The step in which pspStubPduCtxConnect returns success.
ConnectSucceeds ==
    /\ op.kind = "connect_resp"
    /\ op'.pc = "idle"
    /\ opRet'.rc = STS_INF_SUCCESS

\* C12: pspStubPduCtxConnect sends the connect request in the step in which
\* its receive returns a beacon, and remembers that beacon's counter; it
\* returns success in the step in which its receive returns a connect
\* response, and then the context is connected with cCcds = cSysSockets *
\* cCcdsPerSocket, cBeaconsSeen = the remembered counter and cPduRecvNext =
\* 1; in every other step the connected flag and the negotiated values stay
\* as they are, and a failed connect leaves the context unconnected.
C12_ConnectHandshake ==
    [][ /\ (Len(hostOut') > Len(hostOut)
              /\ hostOut'[Len(hostOut')].enmRrnId = PSPSERIALPDURRNID_REQUEST_CONNECT)
           => /\ op.kind = "connect_beacon"
              /\ ev'.what = "pdu_returned"
              /\ PduHdrFields(ev'.pdu).enmRrnId = PSPSERIALPDURRNID_NOTIFICATION_BEACON
              /\ hostOut'[Len(hostOut')].abPayload = << >>
              /\ op'.kind = "connect_resp"
              /\ op'.cBeaconsSeen = BeaconCounter(ev'.pdu)
        /\ ConnectSucceeds
           => /\ ev'.what = "pdu_returned"
              /\ PduHdrFields(ev'.pdu).enmRrnId = PSPSERIALPDURRNID_RESPONSE_CONNECT
              /\ pThis'.fConnect
              /\ pThis'.cCcds = pThis'.cSysSockets * pThis'.cCcdsPerSocket
              /\ pThis'.cSysSockets = ConnectRespFields(ev'.pdu).cSysSockets
              /\ pThis'.cCcdsPerSocket = ConnectRespFields(ev'.pdu).cCcdsPerSocket
              /\ pThis'.cBeaconsSeen = op.cBeaconsSeen
              /\ pThis'.cPduRecvNext = 1
        /\ ~ ConnectSucceeds => NegotiatedParams(pThis') = NegotiatedParams(pThis)
        /\ (op.kind \in {"connect_beacon", "connect_resp"} /\ op'.pc = "idle" /\ ~ ConnectSucceeds)
           => (opRet'.rc # STS_INF_SUCCESS /\ ~ pThis'.fConnect) ]_vars

C12_Witness ==
    /\ op.pc = "idle"
    /\ opRet.kind = "connect"
    /\ opRet.rc = STS_INF_SUCCESS
    /\ pThis.fConnect
    /\ pThis.cBeaconsSeen = 2
    /\ pThis.cPduRecvNext = 1
    /\ pThis.cCcds = 2


(***************************************************************************)
(* Claims about timeouts.                                                  *)
(***************************************************************************)

\* C13: when the budget of a provider poll has gone by without data, the
\* poll has returned, with the timeout status.
C13_PollTimesOut ==
    prov.fBudgetElapsed => (prov.pc = "returned" /\ prov.rc = STS_ERR_PSP_PROXY_TIMEOUT)


\* C14: whenever the underlying receive times out, the operation in progress
\* returns, and what it returns is the timeout status itself.
C14_TimeoutPropagates ==
    ev.what = "timeout" => (op.pc = "idle" /\ opRet.rc = STS_ERR_PSP_PROXY_TIMEOUT)

\* C15: pspStubPduCtxPspCodeModExec does not run its runloop beyond the
\* caller's cMillies: once that many milliseconds of waiting have gone by
\* without the end of the code module, the call has returned.
C15_ExecStopsAtBudget ==
    op.kind \in {"exec_loop", "exec_inwr"} => op.req.cMsWaited < op.req.cMillies

\* C16: a CodeModExecFinished notification that the receive hands out while
\* pspStubPduCtxPspCodeModExec runs, the round trip that forwards the host's
\* input included, ends the call with success and the module's return value.
C16_ExecFinishedNotLost ==
    ( /\ ev.what \in {"pdu_returned", "pdu_handled", "pdu_rejected"}
      /\ PduHdrFields(ev.pdu).enmRrnId = PSPSERIALPDURRNID_NOTIFICATION_CODE_MOD_EXEC_FINISHED
      /\ (op.kind \in {"exec_req", "exec_loop", "exec_inwr"} \/ opRet.kind = "exec") )
    => ( /\ op.pc = "idle"
         /\ opRet.rc = STS_INF_SUCCESS
         /\ opRet.abResp = U32ToBytes(U32Of(u32CmRet)) )

\* The call in progress is inside a pspStubPduCtxReqResp.
InReqResp == op.pc = "recv" /\ op.kind \in {"reqresp", "exec_req", "exec_inwr"}

\* C17: a response with a non-success status ends the operation with
\* request-completed-with-error and without data for the caller, and
\* pspStubPduCtxQueryLastReqRc then returns the status the response carried;
\* the last-request status changes only in a step that hands a response to
\* a waiting request (never on a timeout or a failed receive).
C17_ErrorStatusSurfaced ==
    [][ /\ ( /\ InReqResp
             /\ PduHandedOut
             /\ PduHdrFields(ev'.pdu).enmRrnId = op.enmRrnId
             /\ PduHdrFields(ev'.pdu).rcReq # 0 )
           => ( /\ op'.pc = "idle"
                /\ opRet'.rc = STS_ERR_PSP_PROXY_REQ_COMPLETED_WITH_ERROR
                /\ opRet'.abResp = << >>
                /\ pspStubPduCtxQueryLastReqRc(pThis') = PduHdrFields(ev'.pdu).rcReq )
        /\ pspStubPduCtxQueryLastReqRc(pThis') # pspStubPduCtxQueryLastReqRc(pThis)
           => ( /\ InReqResp
                /\ PduHandedOut
                /\ ev'.what = "pdu_returned"
                /\ PduHdrFields(ev'.pdu).enmRrnId = op.enmRrnId ) ]_vars

\* A memory read has failed with the status 2 of its response, which is
\* the last-request status now.
C17_Witness ==
    /\ op.pc = "idle"
    /\ opRet.kind = "reqresp"
    /\ opRet.rc = STS_ERR_PSP_PROXY_REQ_COMPLETED_WITH_ERROR
    /\ opRet.abResp = << >>
    /\ PduHdrFields(opRet.pdu).rcReq = 2
    /\ pspStubPduCtxQueryLastReqRc(pThis) = 2

(***************************************************************************)
(* Claims about the transfer functions (SpecXfer).                         *)
(***************************************************************************)

RECURSIVE SumLens(_)
\* The lengths of the requests noted in aSent, added up.
SumLens(aSent) == IF aSent = << >> THEN 0 ELSE Head(aSent)[2] + SumLens(Tail(aSent))

\* The start addresses of the requests noted in aSent, relative to uBase.
SentOffsets(x) == [k \in 1..Len(x.aSent) |-> x.aSent[k][1] - x.uBase]

\* The read of 1024 bytes from 0x40000000 under cbPduMax = 256 has returned
\* with success, and no response to an earlier request was outstanding
\* when it started.
BigReadDone ==
    /\ op.pc = "idle"
    /\ opRet.kind = "xfer"
    /\ opRet.rc = STS_INF_SUCCESS
    /\ opRet.req.fn = "PspMemRead"
    /\ opRet.req.uBase = XferBigBase
    /\ opRet.req.cbXfer = XferBigSize
    /\ pThis.cbPduMax = 256
    /\ ~ opRet.req.fOthersPending

\* C18 as stated: the read is 4 request/response pairs at 0x40000000, +0xF0,
\* +0x1E0 and +0x2D0, and the buffer holds the stub's 1024 bytes.
C18_BigReadFourChunks ==
    BigReadDone => /\ SentOffsets(opRet.req) = <<0, 240, 480, 720>>
                   /\ opRet.abResp = StubMem(XferBigBase, XferBigSize)

\* C18, amended: the read is 5 request/response pairs at 0x40000000, +0xE0,
\* +0x1C0, +0x2A0 and +0x380 (0xE0 = 256 - 16 - 8 - 8), of 224 bytes each
\* but the last of 128, and the buffer holds the stub's 1024 bytes, which
\* are the response payloads one behind the other.
C18_BigReadFiveChunks ==
    BigReadDone => /\ SentOffsets(opRet.req) = <<0, 224, 448, 672, 896>>
                   /\ [k \in 1..5 |-> opRet.req.aSent[k][2]] = <<224, 224, 224, 224, 128>>
                   /\ opRet.abResp = StubMem(XferBigBase, XferBigSize)
                   /\ opRet.abResp = opRet.req.abGot

C18_Witness ==
    /\ BigReadDone
    /\ Len(opRet.req.aSent) = 5
    /\ Len(opRet.abResp) = XferBigSize

\* The call o is a memory, SMN or x86 memory transfer that is split: its
\* length is above the payload limit, which leaves room for data.
Chunked(o) ==
    /\ o.pc = "recv"
    /\ o.kind = "xfer"
    /\ o.req.fn # "PspAddrXfer"
    /\ ~ o.req.fFast
    /\ o.req.cbMax >= 1

\* C19: in a split transfer every request carries the start address base +
\* (the lengths of the requests before it) and the length MIN(rest, P), and
\* a write request the bytes of the caller's buffer at that offset; when
\* the transfer returns success the lengths add up to L and a read's buffer
\* holds the response payloads one behind the other; when a chunk fails the
\* transfer returns that chunk's error and sends nothing more.
C19_ChunkedTransfer ==
    [][ /\ ( Chunked(op') /\ (op.pc = "idle" \/ op'.req.aSent # op.req.aSent) )
           => LET x      == op'.req
                  k      == Len(x.aSent)
                  cbDone == SumLens(SubSeq(x.aSent, 1, k - 1))
                  pdu    == hostOut'[Len(hostOut')]
              IN /\ x.aSent[k] = <<x.uBase + cbDone, MIN(x.cbXfer - cbDone, x.cbMax)>>
                 /\ Len(hostOut') = Len(hostOut) + 1
                 /\ pdu.enmRrnId = x.enmReq
                 /\ StubXferOf(pdu).uAddr = x.uBase + cbDone
                 /\ StubXferOf(pdu).cbXfer = MIN(x.cbXfer - cbDone, x.cbMax)
                 /\ ~ x.fRead => StubXferOf(pdu).abData
                                     = SubSeq(WriteData(x.cbXfer), cbDone + 1,
                                              cbDone + MIN(x.cbXfer - cbDone, x.cbMax))
        /\ ( Chunked(op) /\ op'.pc = "idle" /\ opRet'.rc = STS_INF_SUCCESS )
           => /\ SumLens(opRet'.req.aSent) = op.req.cbXfer
              /\ op.req.fRead => ( /\ opRet'.abResp = opRet'.req.abGot
                                   /\ Len(opRet'.abResp) = op.req.cbXfer )
        /\ ( Chunked(op) /\ op'.pc = "idle" /\ opRet'.rc # STS_INF_SUCCESS )
           => /\ hostOut' = hostOut
              /\ opRet'.req.aSent = op.req.aSent
              /\ ev'.what = "timeout" => opRet'.rc = STS_ERR_PSP_PROXY_TIMEOUT
              /\ ( ev'.what = "pdu_returned" /\ PduHdrFields(ev'.pdu).rcReq # 0 )
                 => opRet'.rc = STS_ERR_PSP_PROXY_REQ_COMPLETED_WITH_ERROR ]_vars

\* An x86 memory write of 5 bytes went out in three requests and succeeded;
\* an SMN read of 5 bytes failed on its second chunk.
C19_Witness ==
    /\ op.pc = "idle"
    /\ opRet.kind = "xfer"
    /\ opRet.req.fn = "PspX86MemWrite"
    /\ opRet.rc = STS_INF_SUCCESS
    /\ Len(opRet.req.aSent) = 3
    /\ opRet.req.cbMax = 2

C19_WitnessFailingChunk ==
    /\ op.pc = "idle"
    /\ opRet.kind = "xfer"
    /\ opRet.req.fn = "PspSmnRead"
    /\ opRet.rc = STS_ERR_PSP_PROXY_REQ_COMPLETED_WITH_ERROR
    /\ Len(opRet.req.aSent) = 2
    /\ opRet.req.cbXfer = 5

\* C20: a generic transfer with the READ flag that the stub has answered
\* with success and the bytes read returns success, and the caller's local
\* buffer holds those bytes (so the bytes of an earlier write to the range).
C20_AddrXferReadStores ==
    ( /\ op.pc = "idle"
      /\ opRet.kind = "xfer"
      /\ opRet.req.fn = "PspAddrXfer"
      /\ FlagSet(opRet.req.fFlags, PSP_SERIAL_DATA_XFER_F_READ)
      /\ opRet.req.enmAddrSpace \in AddrSpacesValid
      /\ ~ opRet.req.fOthersPending
      /\ ev.what = "pdu_returned"
      /\ opRet.pdu = ev.pdu
      /\ PduHdrFields(ev.pdu).rcReq = 0 )
    => ( /\ opRet.rc = STS_INF_SUCCESS
         /\ opRet.abResp = PduPayload(ev.pdu)
         /\ opRet.abResp = StubRead([enmAddrSpace |-> opRet.req.enmAddrSpace,
                                     uAddr |-> opRet.req.uBase, cbXfer |-> opRet.req.cbXfer,
                                     cbStride |-> opRet.req.cbStride, fIncrAddr |-> TRUE]) )

\* The arguments of the generic transfer x are among those the
\* documentation rules out: a stride other than 1, 2 or 4, a length that is
\* no multiple of the stride, or READ together with WRITE.
BadXferArgs(x) ==
    /\ x.fn = "PspAddrXfer"
    /\ x.enmAddrSpace \in AddrSpacesValid
    /\ \/ x.cbStride \notin {1, 2, 4}
       \/ x.cbXfer % x.cbStride # 0
       \/ /\ FlagSet(x.fFlags, PSP_SERIAL_DATA_XFER_F_READ)
          /\ FlagSet(x.fFlags, PSP_SERIAL_DATA_XFER_F_WRITE)

\* C21: a generic transfer with a stride other than 1, 2 or 4, a length that
\* is no multiple of the stride, or READ combined with WRITE returns an
\* argument error and no PDU of it is written to the provider: such a call
\* never waits for a response, and it has sent nothing when it returns.
C21_BadArgsRejected ==
    /\ (op.pc = "recv" /\ op.kind = "xfer") => ~ BadXferArgs(op.req)
    /\ (op.pc = "idle" /\ opRet.kind = "xfer" /\ BadXferArgs(opRet.req))
           => (opRet.rc = STS_ERR_INVALID_PARAMETER /\ opRet.req.aSent = << >>)


(***************************************************************************)
(* Claims about the interrupt notifications (SpecIrq).                     *)
(***************************************************************************)

\* This step is a call of pspStubPduCtxPspWaitForIrq: the host was idle and
\* the step is neither the stub's nor a request's (those write a PDU).
WfiCalled ==
    /\ op.pc = "idle"
    /\ stub' = stub
    /\ hostOut' = hostOut
    /\ op'.kind = "wfi" \/ (op'.pc = "idle" /\ opRet'.kind = "wfi")

\* The wait the caller of this step's pspStubPduCtxPspWaitForIrq passed.
WfiWaitMs == IF op'.kind = "wfi" THEN op'.req.cWaitMs ELSE opRet'.req.cWaitMs

\* The IRQ (bit 0) and FIQ (bit 1) flags the context keeps for CCD c.
StoredIrqFlags(p, c) == (IF p.afPerCcdIrq[c] THEN 1 ELSE 0) + (IF p.afPerCcdFirq[c] THEN 2 ELSE 0)

\* C22: pspStubPduCtxPspWaitForIrq with at least one CCD whose interrupt
\* change has not been handed out returns the lowest such CCD with the flags
\* stored for it, clears the marker of that CCD only and receives nothing;
\* with no such CCD and a wait of zero it returns WFI_NO_CHANGE and reads
\* nothing from the provider.
C22_WaitForIrqPendingFirst ==
    [][ WfiCalled =>
           IF \E c \in 0..(PSP_CCDS_MAX - 1) : pThis.afPerCcdIrqNotRcvd[c]
           THEN \E c \in 0..(PSP_CCDS_MAX - 1) :
                   /\ pThis.afPerCcdIrqNotRcvd[c]
                   /\ \A j \in 0..(c - 1) : ~ pThis.afPerCcdIrqNotRcvd[j]
                   /\ op'.pc = "idle"
                   /\ opRet'.rc = STS_INF_SUCCESS
                   /\ opRet'.abResp = <<c, StoredIrqFlags(pThis, c)>>
                   /\ pThis'.afPerCcdIrqNotRcvd = [pThis.afPerCcdIrqNotRcvd EXCEPT ![c] = FALSE]
                   /\ pThis'.afPerCcdIrq = pThis.afPerCcdIrq
                   /\ pThis'.afPerCcdFirq = pThis.afPerCcdFirq
                   /\ pThis'.cCcdsIrqChange = pThis.cCcdsIrqChange - 1
                   /\ wire' = wire
           ELSE WfiWaitMs = 0 =>
                   /\ op'.pc = "idle"
                   /\ opRet'.rc = STS_ERR_PSP_PROXY_WFI_NO_CHANGE
                   /\ pThis' = pThis
                   /\ wire' = wire ]_vars

\* A wait for interrupts has just returned CCD 0 while the change of CCD 1
\* stays marked: two CCDs had a change that was not handed out.
C22_Witness ==
    /\ op.pc = "idle"
    /\ ev.what = "call"
    /\ opRet.kind = "wfi"
    /\ opRet.rc = STS_INF_SUCCESS
    /\ opRet.abResp[1] = 0
    /\ pThis.afPerCcdIrqNotRcvd[1]
    /\ ~ pThis.afPerCcdIrqNotRcvd[0]

\* C29: after the interrupt notification of a CCD c has been dispatched,
\* the IRQ and FIQ flags stored for c are bit 0 and bit 1 of that
\* notification's payload, also when an earlier notification of c has not
\* been handed out yet.
C29_StoredFlagsAreLatest ==
    (/\ ev.what = "pdu_handled"
     /\ PduHdrFields(ev.pdu).enmRrnId = PSPSERIALPDURRNID_NOTIFICATION_IRQ
     /\ PduHdrFields(ev.pdu).idCcd < PSP_CCDS_MAX)
        => StoredIrqFlags(pThis, PduHdrFields(ev.pdu).idCcd) = ev.pdu[cbPduHdr + 1] % 4

\* C30: an interrupt notification of a CCD 16 or higher that the receive
\* state machine hands out makes the call in progress fail, whichever call
\* it is; it is never returned as an interrupt.
C30_IrqCcdOutOfRangeFails ==
    [][ (/\ PduHandedOut
         /\ PduHdrFields(ev'.pdu).enmRrnId = PSPSERIALPDURRNID_NOTIFICATION_IRQ
         /\ PduHdrFields(ev'.pdu).idCcd >= PSP_CCDS_MAX)
            => (op'.pc = "idle" /\ opRet'.rc # STS_INF_SUCCESS) ]_vars


(***************************************************************************)
(* Claims about the log messages (SpecLog).                                *)
(***************************************************************************)

\* The texts of aMsgs one after the other.
RECURSIVE LogConcat(_)
LogConcat(aMsgs) == IF aMsgs = << >> THEN << >> ELSE Head(aMsgs) \o LogConcat(Tail(aMsgs))

\* C23: as long as no log message PDU has been dropped for want of space,
\* the texts passed to pfnLogMsg, in the order of the calls, followed by the
\* valid bytes of the log message buffer are the payloads of the PDUs in
\* the order of their arrival, and every text ends with a newline and has
\* no other newline in it.
C23_LogLinesReassembled ==
    ~ ev.fLogDropped =>
        /\ LogConcat(ev.aLogMsgs) \o SubSeq(pThis.achLogMsg, 1, pThis.cchLogMsgAvail) = ev.abLogRcvd
        /\ \A k \in 1..Len(ev.aLogMsgs) :
              LET sz == ev.aLogMsgs[k] IN
              /\ sz # << >>
              /\ sz[Len(sz)] = 10
              /\ \A i \in 1..(Len(sz) - 1) : sz[i] # 10

\* The payloads "hello ", "world\nmore", " text\n" have arrived: the texts
\* "hello world\n" and "more text\n" have been passed on, the buffer is empty.
C23_Witness ==
    /\ ev.what = "pdu_handled"
    /\ ~ ev.fLogDropped
    /\ ev.abLogRcvd = <<104, 101, 108, 108, 111, 32>>
                        \o <<119, 111, 114, 108, 100, 10, 109, 111, 114, 101>>
                        \o <<32, 116, 101, 120, 116, 10>>
    /\ ev.aLogMsgs = << <<104, 101, 108, 108, 111, 32, 119, 111, 114, 108, 100, 10>>,
                        <<109, 111, 114, 101, 32, 116, 101, 120, 116, 10>> >>
    /\ pThis.cchLogMsgAvail = 0

\* C24: whatever bytes the log message PDUs carry, the valid bytes of the
\* log message buffer hold no newline once a PDU has been handled: at most
\* one line without its end stays behind.
C24_NoNewlineLeftInBuffer ==
    \A i \in 1..pThis.cchLogMsgAvail : pThis.achLogMsg[i] # 10


(***************************************************************************)
(* Claims about the providers' initialisation (SpecProvInit).              *)
(***************************************************************************)

\* C25: when the initialisation of a provider (TCP, serial, SPI flash) has
\* failed, at whichever step, the descriptor it opened on the way is closed
\* when it returns.
C25_InitFailureClosesDescriptor ==
    (/\ prov.pc = "init_returned"
     /\ prov.rc # STS_INF_SUCCESS
     /\ prov.iFdOpened # -1)
        => prov.iFdOpened \notin prov.afFdOpen


(***************************************************************************)
(* Claims about the PDUs the host sends (SpecPdu, SpecXfer).               *)
(***************************************************************************)

\* The PDUs this step writes to the provider.
PdusSent ==
    IF Len(hostOut') > Len(hostOut)
    THEN SubSeq(hostOut', Len(hostOut) + 1, Len(hostOut'))
    ELSE << >>

SentLayoutOk(pdu, ab) ==
    LET cb    == Len(pdu.abPayload)
        cbPad == Len(ab) - cbPduHdr - cb - cbPduFooter
    IN /\ SubSeq(ab, 1, 4) = PSP_SERIAL_EXT_2_PSP_PDU_START_MAGIC
       /\ PduHdrFields(ab).cbPdu = U32Of(cb)
       /\ SubSeq(ab, cbPduHdr + 1, cbPduHdr + cb) = pdu.abPayload
       /\ cbPad \in 0..7
       /\ (cb + cbPad) % 8 = 0
       /\ \A i \in (cbPduHdr + cb + 1)..(cbPduHdr + cb + cbPad) : ab[i] = 0
       /\ SubSeq(ab, Len(ab) - 3, Len(ab)) = PSP_SERIAL_EXT_2_PSP_PDU_END_MAGIC

\* The bytes of ab from position off up to the footer and the checksum of
\* the footer add up to 0 in 32 bit arithmetic.
PduSumIsZero(ab, off) ==
    U32Add(U32Of(SumBytes(SubSeq(ab, off, Len(ab) - cbPduFooter))),
           U32FromBytes(SubSeq(ab, Len(ab) - cbPduFooter + 1, Len(ab) - 4))) = U32Of(0)

\* A call or a received response writes at most one PDU to the provider, so
\* every PDU written is the last of hostOut in the state behind its write.
OnePduPerStep == [][Len(hostOut') <= Len(hostOut) + 1]_vars

DeliveredFieldsOk(p, ab) ==
    LET hdr == PduHdrFields(ab) IN
    /\ hdr.u32Magic = PSP_SERIAL_PSP_2_EXT_PDU_START_MAGIC
    /\ hdr.u32Magic # PSP_SERIAL_EXT_2_PSP_PDU_START_MAGIC
    /\ hdr.cbPdu.hi = 0
    /\ hdr.cbPdu.lo <= 4096 - 16 - 8
    /\ \/ hdr.enmRrnId \in PSPSERIALPDURRNID_RESPONSE_FIRST..(PSPSERIALPDURRNID_RESPONSE_INVALID_FIRST - 1)
       \/ hdr.enmRrnId \in PSPSERIALPDURRNID_NOTIFICATION_FIRST..(PSPSERIALPDURRNID_NOTIFICATION_INVALID_FIRST - 1)
    /\ hdr.idCcd < p.cCcds
    /\ p.fConnect => hdr.cPdus = U32Of(p.cPduRecvNext + 1)
    /\ Len(ab) = cbPduHdr + hdr.cbPdu.lo + PadTo8(hdr.cbPdu.lo) + cbPduFooter
    /\ SubSeq(ab, Len(ab) - 3, Len(ab)) = PSP_SERIAL_PSP_2_EXT_PDU_END_MAGIC

\* This step ends with a failed pspStubPduCtxHdrValidate or
\* pspStubPduCtxValidate.
ValidationFailed ==
    /\ Len(wire') < Len(wire)
    /\ ev'.what \in {"hdr_bad", "hdr_bad_cPdus", "footer_bad"}

\* The receive state machine waits for a start magic with nothing received.
RecvAwaitsMagic(p) ==
    /\ p.enmPduRecvState = "MAGIC"
    /\ p.cbPduRecvLeft = 4
    /\ p.offPduRecv = 0

C31_ReadReportsBytesTransferred ==
    (prov.pc = "read" /\ prov.rc = STS_INF_SUCCESS) => prov.cbThisRecv = prov.cbGot



(***************************************************************************)
(* Claims about live scratch blocks (SpecScratch).                         *)
(***************************************************************************)

\* The block [addr, addr + cb) shares no byte with the block b.
ScratchDisjoint(addr, cb, b) == addr + cb <= b.addr \/ b.addr + b.cb <= addr

\* C32: the range of every successful PSPProxyCtxScratchSpaceAlloc is
\* disjoint from every block that was allocated before and has not been
\* freed since.
C32_LiveBlocksDisjoint ==
    [][(scratchRet'.op = "alloc" /\ scratchRet'.rc = 0 /\ cScratchOps' = cScratchOps + 1)
          => \A b \in scratchLive : ScratchDisjoint(scratchRet'.addr, scratchRet'.cb, b)]_vars



(***************************************************************************)
(* Claims about the PDU behind a damaged one (SpecRetry).                  *)
(***************************************************************************)

\* C33: while connected, behind one PDU discarded for its checksum or its
\* end magic the stub's next PDU, well-formed and with the stub's next
\* sequence number, is handed out: once its last byte is read the receive
\* waiting for it has returned it.
C33_NextPduDeliveredAfterDamage ==
    (pThis.fConnect /\ wire = << >> /\ ev.what # "timeout") => RecvReturned(stub.sent[2])



(***************************************************************************)
(* Claims about beacons of a stub that never restarts (SpecSteady).        *)
(***************************************************************************)

\* C34: against a stub that never restarts and counts its beacons
\* consecutively no operation ends with an error on a beacon, whenever the
\* beacons arrive, a beacon between the one that starts the handshake and
\* the connect response included.
C34_NoFailureOnBeacon ==
    ~ /\ op.pc = "idle"
      /\ opRet.rc # STS_INF_SUCCESS
      /\ ev.what = "pdu_rejected"
      /\ PduHdrFields(ev.pdu).enmRrnId = PSPSERIALPDURRNID_NOTIFICATION_BEACON



(***************************************************************************)
(* Claims about the host-to-PSP ring (SpecRing).                           *)
(***************************************************************************)

\* C35: every byte em100TcpSpiMsgBufferWrite has put into the ring is
\* consumed once and in order: what the PSP has consumed is a prefix of
\* what the host has written, and a ring whose offsets are equal holds no
\* byte that is still to be consumed.
C35_RingBytesConsumedInOrder ==
    /\ Len(prov.abConsumed) <= Len(prov.abAccepted)
    /\ prov.abConsumed = SubSeq(prov.abAccepted, 1, Len(prov.abConsumed))
    /\ prov.offHead = prov.offTail => prov.abConsumed = prov.abAccepted



(***************************************************************************)
(* Claims about the size of the requests (SpecXfer).                       *)
(***************************************************************************)

\* C36: every request the connected host sends takes at most the
\* negotiated cbPduMax bytes on the wire, header, payload, pad and footer
\* counted, whatever cbPduMax and the length of the transfer are.
C36_RequestWithinPduMax ==
    hostOut # << >> =>
        Len(pspStubPduCtxSendBytes(hostOut[Len(hostOut)])) <= pThis.cbPduMax



(***************************************************************************)
(* Claims about the bounds of the log message buffer (SpecLog).            *)
(***************************************************************************)

\* The highest index of achLogMsg that the loop of
\* pspStubPduCtxLogMsgHandle reads or writes when the valid bytes are ab
\* and the bytes behind them are 0: strchr reads up to the first newline or
\* 0 byte, which is the byte behind the valid ones when there is none
\* among them; behind a newline the byte that follows it is read,
\* overwritten with the terminator and restored, and the loop goes on with
\* the rest moved to the front.
RECURSIVE LogMsgTopIndex(_)
LogMsgTopIndex(ab) ==
    LET S == { i \in 1..Len(ab) : ab[i] \in {0, 10} } IN
    IF S = {} THEN Len(ab)
    ELSE LET i == CHOOSE k \in S : \A j \in S : k <= j
         IN IF ab[i] = 0 THEN i - 1
            ELSE IF i = Len(ab) THEN i
            ELSE LET iRest == LogMsgTopIndex(SubSeq(ab, i + 1, Len(ab)))
                 IN IF iRest > i THEN iRest ELSE i

\* The step in which pspStubPduCtxRecvId hands a log message PDU to
\* pspStubPduCtxLogMsgHandle.
LogMsgHandled ==
    /\ wire # << >>
    /\ pThis.pProxyIoIf
    /\ ev'.what = "pdu_handled"
    /\ PduHdrFields(ev'.pdu).enmRrnId = PSPSERIALPDURRNID_NOTIFICATION_LOG_MSG

\* C37: pspStubPduCtxLogMsgHandle touches achLogMsg below index 1024 only,
\* and cchLogMsgAvail stays at 1024 or below, whatever payloads arrive: a
\* payload that fills the buffer and a newline as the last byte of the
\* buffer included.
C37_LogBufferWithinBounds ==
    [][ LogMsgHandled =>
            /\ pThis'.cchLogMsgAvail <= cbLogMsgBuf
            /\ cbLogMsgBuf - pThis.cchLogMsgAvail >= Len(PduPayload(ev'.pdu))
                   => LogMsgTopIndex(SubSeq(pThis.achLogMsg, 1, pThis.cchLogMsgAvail)
                                         \o PduPayload(ev'.pdu)) < cbLogMsgBuf ]_vars



(***************************************************************************)
(* Claims about output buffer notifications (SpecOutBuf).                  *)
(***************************************************************************)

\* C38: for every output buffer notification that pspStubPduCtxRecvId
\* hands to pspStubPduCtxOutBufWriteHandle, shorter than the fixed fields
\* or not, the byte count passed to pfnOutBufWrite is at most the length of
\* the PDU's payload.
C38_OutBufCountWithinPayload ==
    (/\ ev.what = "pdu_handled"
     /\ PduHdrFields(ev.pdu).enmRrnId = PSPSERIALPDURRNID_NOTIFICATION_OUT_BUF
     /\ pThis.pProxyIoIf)
        => LET cbData == pspStubPduCtxOutBufWriteHandle(ev.pdu).cbData
           IN cbData >= 0 /\ cbData <= Len(PduPayload(ev.pdu))



(***************************************************************************)
(* Claims about the count of pending interrupt changes (SpecIrq).          *)
(***************************************************************************)

\* C39: in every state cCcdsIrqChange is the number of CCDs whose marker
\* afPerCcdIrqNotRcvd is set, however interrupt notifications and waits
\* for interrupts follow each other; it is never below 0 nor above 16.
C39_IrqCountIsMarkers ==
    /\ pThis.cCcdsIrqChange = Cardinality({ c \in 0..(PSP_CCDS_MAX - 1) : pThis.afPerCcdIrqNotRcvd[c] })
    /\ pThis.cCcdsIrqChange >= 0
    /\ pThis.cCcdsIrqChange <= PSP_CCDS_MAX

\* Notifications for CCD 0 and CCD 1 have been counted and a wait for
\* interrupts has handed out the change of CCD 0: one marker is set, the
\* count is back at 1.
C39_Witness ==
    /\ pThis.cCcdsIrqChange = 1
    /\ pThis.afPerCcdIrqNotRcvd[1]
    /\ ~ pThis.afPerCcdIrqNotRcvd[0]
    /\ op.pc = "idle"
    /\ opRet.kind = "wfi"
    /\ opRet.rc = STS_INF_SUCCESS
    /\ opRet.abResp[1] = 0


(***************************************************************************)
(* Claims about the bounds of the receive buffer (SpecBig).                *)
(***************************************************************************)

\* C40: in every state of the receive state machine the offset into abPdu
\* plus the bytes the current state still waits for is at most the size of
\* abPdu, 4096: no read of the provider goes behind the buffer, whatever
\* bytes arrive.
C40_RecvWithinBuffer ==
    /\ pThis.offPduRecv >= 0
    /\ pThis.cbPduRecvLeft >= 0
    /\ pThis.offPduRecv + pThis.cbPduRecvLeft <= cbPduBuf

\* Header and payload of a response with the longest payload accepted are
\* in: the footer is awaited in the last 8 bytes of the buffer.
C40_Witness ==
    /\ pThis.enmPduRecvState = "FOOTER"
    /\ pThis.offPduRecv = cbPduBuf - cbPduFooter
    /\ pThis.cbPduRecvLeft = cbPduFooter
    /\ Len(pThis.abPdu) = pThis.offPduRecv


====
